---- MODULE Spec2Model ----
(***************************************************************************)
(* Model of the personal-finance assistant: the currency codec             *)
(* (src/utils.py), the transaction store (src/database.py,                 *)
(* src/repositories/transaction_repository.py, src/models.py), the insert  *)
(* and query tools (src/financial_agent.py, src/financial_agent_new.py),   *)
(* the transaction-creation endpoint (src/routes/transaction_routes.py)    *)
(* and the keyword interpreter (_parse_query).                             *)
(*                                                                         *)
(* Specifications:                                                         *)
(*   Spec        the store under concurrent calls of the insert tools and  *)
(*               of the endpoint;                                          *)
(*   SpecStore   concurrent direct calls of the insert_transaction methods;*)
(*   SpecQuery, SpecTools, SpecChat, SpecReport                            *)
(*               one caller that inserts, queries, chats;                  *)
(*   SpecEngine  threads that construct DatabaseEngine;                    *)
(*   SpecPure, SpecCents                                                   *)
(*               the pure functions, applied to inputs drawn by the        *)
(*               initial state.                                            *)
(***************************************************************************)
EXTENDS Integers, Sequences, FiniteSets, TLC

VARIABLES
    store,   \* committed rows of table transactions
    seq,     \* last value handed out by the SERIAL sequence of column id
    clock,   \* the wall clock read by datetime.now()
    pc,      \* per caller: "idle", "inserted" (INSERT run, not committed), "done"
    call,    \* per caller: the call in progress
    pend,    \* per caller: the row written by its uncommitted INSERT
    ret,     \* per caller: what the call returned
    fnIn,    \* SpecPure: the argument
    fnOp,    \* SpecPure: the function applied to it ("none" before)
    fnOut,   \* SpecPure: its result
    engine,  \* the class attributes of DatabaseEngine and the objects created
    thread   \* per thread: its position in a DatabaseEngine() construction

vars == <<store, seq, clock, pc, call, pend, ret, fnIn, fnOp, fnOut, engine, thread>>

storeVars == <<store, seq, clock, pc, call, pend, ret>>
pureVars == <<fnIn, fnOp, fnOut>>
engineVars == <<engine, thread>>

(***************************************************************************)
(* Bounds of the model.                                                    *)
(***************************************************************************)
MaxLen == 4      \* longest text drawn over TextAlphabet
MaxSmall == 120  \* decimal coefficients -MaxSmall..MaxSmall are all drawn
MaxFrac == 3     \* most fractional digits of a drawn decimal
MaxClock == 1    \* the clock stops advancing here
MaxSeq == 2      \* most INSERT statements run
MaxSkew == 1     \* most ticks between two successive datetime.now() reads

(***************************************************************************)
(* Arithmetic helpers.                                                     *)
(***************************************************************************)
Abs(n) == IF n < 0 THEN -n ELSE n

Sgn(n) == IF n < 0 THEN -1 ELSE IF n > 0 THEN 1 ELSE 0

RECURSIVE Pow10(_)
Pow10(k) == IF k <= 0 THEN 1 ELSE 10 * Pow10(k - 1)

\* Integer division truncating toward zero, as Python's int() of a quotient.
TruncDiv(a, b) == Sgn(a) * (Abs(a) \div b)

(***************************************************************************)
(* Text: a Python str is a sequence of one-character strings.              *)
(***************************************************************************)
Digits == <<"0", "1", "2", "3", "4", "5", "6", "7", "8", "9">>

IsDigit(c) == \E i \in 1..10 : Digits[i] = c

DigitVal(c) == (CHOOSE i \in 1..10 : Digits[i] = c) - 1

RECURSIVE DigitsToNat(_)
DigitsToNat(s) ==
    IF s = <<>> THEN 0
    ELSE 10 * DigitsToNat(SubSeq(s, 1, Len(s) - 1)) + DigitVal(s[Len(s)])

RECURSIVE NatToDigits(_)
NatToDigits(n) ==
    IF n < 10 THEN <<Digits[n + 1]>>
    ELSE NatToDigits(n \div 10) \o <<Digits[(n % 10) + 1]>>

\* n written with exactly k digits (leading zeros), n < 10^k.
RECURSIVE NatToFixed(_, _)
NatToFixed(n, k) ==
    IF k = 0 THEN <<>> ELSE NatToFixed(n \div 10, k - 1) \o <<Digits[(n % 10) + 1]>>

AllDigits(s) == \A i \in 1..Len(s) : IsDigit(s[i])

IndexOf(s, c) ==
    IF \E i \in 1..Len(s) : s[i] = c
    THEN CHOOSE i \in 1..Len(s) : s[i] = c /\ \A j \in 1..(i - 1) : s[j] # c
    ELSE 0

(***************************************************************************)
(* decimal.Decimal: a value coef * 10^exp with an integer coefficient.     *)
(***************************************************************************)
Dec(c, e) == [coef |-> c, exp |-> e]

\* The same value with no trailing zero in the coefficient (zero is 0E0).
RECURSIVE Normal(_)
Normal(d) ==
    IF d.coef = 0 THEN Dec(0, 0)
    ELSE IF d.coef % 10 = 0 THEN Normal(Dec(TruncDiv(d.coef, 10), d.exp + 1))
    ELSE d

\* Decimal.__eq__: two Decimals are equal when their values are.
DecEq(a, b) == Normal(a) = Normal(b)

\* Decimal(text): [sign] digits [. digits] or [sign] . digits; anything else
\* raises decimal.InvalidOperation.
ParseDecimal(s) ==
    LET neg  == Len(s) > 0 /\ s[1] = "-"
        body == IF neg THEN SubSeq(s, 2, Len(s)) ELSE s
        dot  == IndexOf(body, ".")
        ip   == IF dot = 0 THEN body ELSE SubSeq(body, 1, dot - 1)
        fp   == IF dot = 0 THEN <<>> ELSE SubSeq(body, dot + 1, Len(body))
        good == AllDigits(ip) /\ AllDigits(fp) /\ Len(ip) + Len(fp) > 0
        mag  == DigitsToNat(ip \o fp)
    IN  IF good
        THEN [status |-> "ok", val |-> Dec(IF neg THEN -mag ELSE mag, -Len(fp))]
        ELSE [status |-> "InvalidOperation", val |-> Dec(0, 0)]

\* A float is held as the shortest decimal that repr prints for it, with no
\* trailing fractional zero (exp <= 0).  str(float) prints the integer part,
\* a point and at least one fractional digit: 50.0, 10.555, -0.004.
FloatStr(f) ==
    LET a  == Abs(f.coef)
        k  == -f.exp
        ip == NatToDigits(a \div Pow10(k))
        fp == IF k = 0 THEN <<"0">> ELSE NatToFixed(a % Pow10(k), k)
    IN  (IF f.coef < 0 THEN <<"-">> ELSE <<>>) \o ip \o <<".">> \o fp

\* Decimal * 100.  Python multiplies the coefficients and adds the exponents
\* (coef * 100, exp); the same value is held here as (coef, exp + 2), which
\* keeps the coefficient of a nine-digit amount within TLC's integers.
DecTimes100(d) == Dec(d.coef, d.exp + 2)

\* quantize(Decimal("1"), rounding=ROUND_HALF_EVEN): what a wrong rounding
\* mode would give.
QuantizeHalfEven(d) ==
    IF d.exp >= 0 THEN d.coef * Pow10(d.exp)
    ELSE LET p == Pow10(-d.exp)
             a == Abs(d.coef)
             q == a \div p
             r == a % p
         IN  Sgn(d.coef) * (IF 2 * r > p \/ (2 * r = p /\ q % 2 = 1) THEN q + 1 ELSE q)

\* quantize(Decimal("1"), rounding=ROUND_HALF_UP) followed by int(): the
\* nearest integer, a tie going away from zero.
QuantizeHalfUp(d) ==
    IF d.exp >= 0 THEN d.coef * Pow10(d.exp)
    ELSE LET p == Pow10(-d.exp)
             a == Abs(d.coef)
             q == a \div p
             r == a % p
         IN  Sgn(d.coef) * (IF 2 * r >= p THEN q + 1 ELSE q)

(***************************************************************************)
(* Arguments of the codec: [kind, text, val, n] with kind "str" (text),    *)
(* "float" (val, see FloatStr), "decimal" (val) or "int" (n).              *)
(***************************************************************************)
StrArg(t) == [kind |-> "str", text |-> t, val |-> Dec(0, 0), n |-> 0]
FloatArg(d) == [kind |-> "float", text |-> <<>>, val |-> d, n |-> 0]
DecimalArg(d) == [kind |-> "decimal", text |-> <<>>, val |-> d, n |-> 0]
IntArg(i) == [kind |-> "int", text |-> <<>>, val |-> Dec(0, 0), n |-> i]

Ok(i) == [status |-> "ok", n |-> i]
Raise(e) == [status |-> e, n |-> 0]

\* The isinstance chain of dollars_to_cents: the Decimal the argument becomes.
ToDecimal(arg) ==
    CASE arg.kind = "str" -> ParseDecimal(arg.text)
      [] arg.kind = "float" -> ParseDecimal(FloatStr(arg.val))
      [] arg.kind = "decimal" -> [status |-> "ok", val |-> arg.val]
      [] OTHER -> [status |-> "ValueError", val |-> Dec(0, 0)]

dollars_to_cents(arg) ==
    LET d == ToDecimal(arg)
    IN  IF d.status # "ok" THEN Raise(d.status)
        ELSE Ok(QuantizeHalfUp(DecTimes100(d.val)))

\* Decimal(n) // 100: what a floor division would give.
cents_to_dollars_floor(amount_cents) == Dec(amount_cents \div 100, 0)

\* Decimal(amount_cents) / 100: the exact quotient, with the fewest
\* fractional digits that hold it (1050 -> 10.5, 1000 -> 10, 5 -> 0.05).
cents_to_dollars(amount_cents) ==
    IF amount_cents % 100 = 0 THEN Dec(TruncDiv(amount_cents, 100), 0)
    ELSE IF amount_cents % 10 = 0 THEN Dec(TruncDiv(amount_cents, 10), -1)
    ELSE Dec(amount_cents, -2)

MaxCents == 999999999

\* validate_amount: True ("ok"), or the ValueError its except clause re-raises;
\* an exception that is neither ValueError nor TypeError passes through.
validate_amount(arg) ==
    LET c == IF arg.kind = "int" THEN Ok(arg.n) ELSE dollars_to_cents(arg)
    IN  IF c.status # "ok" THEN Raise(c.status)
        ELSE IF c.n < 0 THEN Raise("ValueError")
        ELSE IF c.n > MaxCents THEN Raise("ValueError")
        ELSE Ok(1)

\* f"{d:.2f}" of a Decimal: sign, integer digits, a point and two
\* fractional digits; a value with more than two fractional digits is
\* rounded half-even, as Decimal.__format__ does.
FormatF2(d) ==
    LET a  == Abs(d.coef)
        c2 == IF d.exp >= -2 THEN a * Pow10(d.exp + 2)
              ELSE LET p == Pow10(-d.exp - 2)
                       q == a \div p
                       r == a % p
                   IN  IF 2 * r > p \/ (2 * r = p /\ q % 2 = 1) THEN q + 1 ELSE q
    IN  (IF d.coef < 0 THEN <<"-">> ELSE <<>>)
            \o NatToDigits(c2 \div 100) \o <<".">> \o NatToFixed(c2 % 100, 2)

\* abs() of a Decimal.
DecAbs(d) == Dec(Abs(d.coef), d.exp)

\* f"${dollars:.2f}" whatever the sign.
format_currency_unsigned(amount_cents) ==
    <<"$">> \o FormatF2(cents_to_dollars(amount_cents))

format_currency(amount_cents) ==
    LET dollars == cents_to_dollars(amount_cents)
    IN  IF amount_cents < 0 THEN <<"-", "$">> \o FormatF2(DecAbs(dollars))
        ELSE <<"$">> \o FormatF2(dollars)

\* f"{amount:.2f}" of a float: the binary value rounded to two fractional
\* digits.  A float printed with at most two fractional digits gives those
\* digits.  With more digits the nearer neighbour is taken; when the printed
\* decimal lies midway, a binary fraction (a multiple of 1/8 here) is midway
\* itself and goes to the even neighbour, and any other float lies a little
\* to one side of the middle, so either neighbour may be the result.
FloatFormatF2(f) ==
    LET k     == -f.exp
        exact == k = 0 \/ (f.coef * 1000) % (125 * Pow10(k)) = 0
        tie   == k > 2 /\ 2 * (Abs(f.coef) % Pow10(k - 2)) = Pow10(k - 2)
    IN  IF tie /\ ~exact
        THEN {FormatF2(Dec(f.coef * 10 - Sgn(f.coef), f.exp - 1)),
              FormatF2(Dec(f.coef * 10 + Sgn(f.coef), f.exp - 1))}
        ELSE {FormatF2(f)}

\* str.strip() of a text held a character at a time.
RECURSIVE StripSpaces(_)
StripSpaces(s) ==
    IF Len(s) = 0 THEN s
    ELSE IF s[1] = " " THEN StripSpaces(Tail(s))
    ELSE IF s[Len(s)] = " " THEN StripSpaces(SubSeq(s, 1, Len(s) - 1))
    ELSE s

\* s.replace(c, "")
Without(s, c) ==
    LET Other(x) == x # c
    IN  SelectSeq(s, Other)

\* The float a decimal text of a few digits denotes, held as FloatStr
\* expects it: no trailing fractional zero.
RECURSIVE FloatOf(_)
FloatOf(d) ==
    IF d.exp < 0 /\ d.coef % 10 = 0 THEN FloatOf(Dec(TruncDiv(d.coef, 10), d.exp + 1))
    ELSE d

\* float(text): white space around the number is ignored; a text that is
\* not a number raises ValueError.
ParseFloat(s) ==
    LET d == ParseDecimal(StripSpaces(s))
    IN  IF d.status = "ok" THEN [status |-> "ok", val |-> FloatOf(d.val)]
        ELSE [status |-> "ValueError", val |-> Dec(0, 0)]

\* parse_amount_string: the cleaned text goes through float() and the float
\* through dollars_to_cents, which takes it as dollars; a ValueError is
\* raised again as ValueError.
parse_amount_string(amount_str) ==
    LET cleaned == Without(Without(StripSpaces(amount_str), "$"), ",")
        f == ParseFloat(cleaned)
    IN  IF f.status # "ok" THEN Raise(f.status)
        ELSE dollars_to_cents(FloatArg(f.val))

(***************************************************************************)
(* FinancialAgent._parse_query: the keyword interpreter.                   *)
(***************************************************************************)
None == "<None>"

UpperLetters ==
    <<"A", "B", "C", "D", "E", "F", "G", "H", "I", "J", "K", "L", "M",
      "N", "O", "P", "Q", "R", "S", "T", "U", "V", "W", "X", "Y", "Z">>

LowerLetters ==
    <<"a", "b", "c", "d", "e", "f", "g", "h", "i", "j", "k", "l", "m",
      "n", "o", "p", "q", "r", "s", "t", "u", "v", "w", "x", "y", "z">>

\* str.lower(), a character at a time.
LowerChar(c) ==
    IF \E i \in 1..26 : UpperLetters[i] = c
    THEN LowerLetters[CHOOSE i \in 1..26 : UpperLetters[i] = c]
    ELSE c

Lower(s) == [i \in 1..Len(s) |-> LowerChar(s[i])]

\* Python's "keyword in text": keyword occurs as a substring.
Contains(text, keyword) ==
    \E i \in 1..(Len(text) - Len(keyword) + 1) :
        SubSeq(text, i, i + Len(keyword) - 1) = keyword

\* any(word in text for word in words)
AnyIn(text, words) == \E i \in 1..Len(words) : Contains(text, words[i])

\* The dict category_mapping, in its insertion order.
category_mapping ==
    <<
      [category |-> "technology",
       keywords |-> <<<<"t", "e", "c", "h">>,
                     <<"c", "o", "m", "p", "u", "t", "e", "r">>,
                     <<"l", "a", "p", "t", "o", "p">>,
                     <<"s", "o", "f", "t", "w", "a", "r", "e">>,
                     <<"t", "e", "c", "h", "n", "o", "l", "o", "g", "y">>>>],
      [category |-> "food",
       keywords |-> <<<<"f", "o", "o", "d">>,
                     <<"r", "e", "s", "t", "a", "u", "r", "a", "n", "t">>,
                     <<"c", "o", "f", "f", "e", "e">>,
                     <<"l", "u", "n", "c", "h">>,
                     <<"d", "i", "n", "n", "e", "r">>,
                     <<"b", "r", "e", "a", "k", "f", "a", "s", "t">>,
                     <<"g", "r", "o", "c", "e", "r", "i", "e", "s">>>>],
      [category |-> "shopping",
       keywords |-> <<<<"s", "h", "o", "p", "p", "i", "n", "g">>,
                     <<"c", "l", "o", "t", "h", "e", "s">>,
                     <<"a", "m", "a", "z", "o", "n">>,
                     <<"s", "t", "o", "r", "e">>,
                     <<"p", "u", "r", "c", "h", "a", "s", "e">>>>],
      [category |-> "transportation",
       keywords |-> <<<<"u", "b", "e", "r">>,
                     <<"l", "y", "f", "t">>,
                     <<"g", "a", "s">>,
                     <<"f", "u", "e", "l">>,
                     <<"t", "r", "a", "n", "s", "p", "o", "r", "t", "a", "t", "i", "o", "n">>,
                     <<"c", "a", "r">>>>],
      [category |-> "entertainment",
       keywords |-> <<<<"m", "o", "v", "i", "e">>,
                     <<"n", "e", "t", "f", "l", "i", "x">>,
                     <<"s", "p", "o", "t", "i", "f", "y">>,
                     <<"e", "n", "t", "e", "r", "t", "a", "i", "n", "m", "e", "n", "t">>>>],
      [category |-> "health",
       keywords |-> <<<<"m", "e", "d", "i", "c", "a", "l">>,
                     <<"d", "o", "c", "t", "o", "r">>,
                     <<"p", "h", "a", "r", "m", "a", "c", "y">>,
                     <<"h", "e", "a", "l", "t", "h">>>>],
      [category |-> "utilities",
       keywords |-> <<<<"e", "l", "e", "c", "t", "r", "i", "c", "i", "t", "y">>,
                     <<"w", "a", "t", "e", "r">>,
                     <<"i", "n", "t", "e", "r", "n", "e", "t">>,
                     <<"p", "h", "o", "n", "e">>,
                     <<"u", "t", "i", "l", "i", "t", "i", "e", "s">>>>]
    >>

expense_words ==
    <<<<"s", "p", "e", "n", "t">>,
      <<"s", "p", "e", "n", "d", "i", "n", "g">>,
      <<"e", "x", "p", "e", "n", "s", "e">>,
      <<"c", "o", "s", "t">>>>

income_words ==
    <<<<"e", "a", "r", "n", "e", "d">>,
      <<"i", "n", "c", "o", "m", "e">>,
      <<"s", "a", "l", "a", "r", "y">>,
      <<"r", "e", "v", "e", "n", "u", "e">>>>

sum_words ==
    <<<<"t", "o", "t", "a", "l">>,
      <<"s", "u", "m">>,
      <<"h", "o", "w", " ", "m", "u", "c", "h">>>>

average_words ==
    <<<<"a", "v", "e", "r", "a", "g", "e">>,
      <<"a", "v", "g">>>>

count_words ==
    <<<<"c", "o", "u", "n", "t">>,
      <<"h", "o", "w", " ", "m", "a", "n", "y">>>>

month_words ==
    <<<<"t", "h", "i", "s", " ", "m", "o", "n", "t", "h">>,
      <<"m", "o", "n", "t", "h">>,
      <<"c", "u", "r", "r", "e", "n", "t", " ", "m", "o", "n", "t", "h">>>>

\* The for loop without its break: the last category of the dict's order
\* one of whose keywords occurs.
detected_category_last(query_lower) ==
    LET hits == {i \in 1..Len(category_mapping) :
                    AnyIn(query_lower, category_mapping[i].keywords)}
    IN  IF hits = {} THEN None
        ELSE category_mapping[CHOOSE i \in hits : \A j \in hits : i >= j].category

\* The for loop over category_mapping.items() with its break: the first
\* category in the dict's order one of whose keywords occurs.
detected_category(query_lower) ==
    LET hits == {i \in 1..Len(category_mapping) :
                    AnyIn(query_lower, category_mapping[i].keywords)}
    IN  IF hits = {} THEN None
        ELSE category_mapping[CHOOSE i \in hits : \A j \in hits : i <= j].category

query_type(query_lower) ==
    IF AnyIn(query_lower, expense_words) THEN "expense"
    ELSE IF AnyIn(query_lower, income_words) THEN "income"
    ELSE None

\* The three tests as independent ifs: every aggregation a cue of which
\* occurs is appended.
aggregations_all(query_lower) ==
    (IF AnyIn(query_lower, sum_words) THEN <<"sum">> ELSE <<>>)
        \o (IF AnyIn(query_lower, average_words) THEN <<"average">> ELSE <<>>)
        \o (IF AnyIn(query_lower, count_words) THEN <<"count">> ELSE <<>>)

\* The if / elif / elif chain: at most one append.
aggregations(query_lower) ==
    IF AnyIn(query_lower, sum_words) THEN <<"sum">>
    ELSE IF AnyIn(query_lower, average_words) THEN <<"average">>
    ELSE IF AnyIn(query_lower, count_words) THEN <<"count">>
    ELSE <<>>

\* A test for the phrase "this month" alone.
date_range_phrase(query_lower) ==
    IF Contains(query_lower, month_words[1]) THEN "this_month" ELSE None

date_range(query_lower) ==
    IF AnyIn(query_lower, month_words) THEN "this_month" ELSE None

parse_query(query) ==
    LET query_lower == Lower(query)
    IN  [filters |-> [category |-> detected_category(query_lower),
                      type |-> query_type(query_lower),
                      date_range |-> date_range(query_lower)],
         aggregations |-> aggregations(query_lower),
         sort_by |-> "date",
         sort_order |-> "desc",
         limit |-> None]

\* The utterance of the specification's example.
FoodUtterance ==
    <<"H", "o", "w", " ", "m", "u", "c", "h", " ", "d", "i", "d", " ", "I", " ", "s", "p", "e", "n", "d", " ", "o", "n", " ", "f", "o", "o", "d", " ", "t", "h", "i", "s", " ", "m", "o", "n", "t", "h", "?">>

\* Words the drawn utterances are made of.
Vocabulary ==
    {<<"s", "p", "e", "n", "t">>,
     <<"s", "p", "e", "n", "d">>,
     <<"f", "o", "o", "d">>,
     <<"F", "o", "o", "d">>,
     <<"l", "a", "p", "t", "o", "p">>,
     <<"c", "a", "r">>,
     <<"t", "o", "t", "a", "l">>,
     <<"a", "v", "e", "r", "a", "g", "e">>,
     <<"h", "o", "w", " ", "m", "a", "n", "y">>,
     <<"m", "o", "n", "t", "h">>,
     <<"i", "n", "c", "o", "m", "e">>,
     <<"o", "n">>,
     <<"c", "o", "s", "t">>,
     <<"n", "e", "t", "f", "l", "i", "x">>}

RECURSIVE JoinWords(_)
JoinWords(ws) ==
    IF Len(ws) = 0 THEN <<>>
    ELSE IF Len(ws) = 1 THEN ws[1]
    ELSE ws[1] \o <<" ">> \o JoinWords(Tail(ws))

(***************************************************************************)
(* The transaction store: table transactions and the code that writes it.  *)
(***************************************************************************)
Callers == {"a", "b"}

\* required_fields of DatabaseClient.insert_transaction; the NOT NULL columns.
RequiredFields == {"amount", "description", "category", "type"}

\* CHECK (type IN ('expense', 'income'))
TransactionTypes == {"expense", "income"}

\* A date argument: absent (None, or no key), a date that parses to time t,
\* or a text that does not parse.
NoDate == [kind |-> "absent", t |-> 0]
DateAt(t) == [kind |-> "valid", t |-> t]
BadDate == [kind |-> "invalid", t |-> 0]

\* One call of an insert path.  missing: the required fields the caller left
\* out (path "db": no such key in transaction_data; path "repo": passed as
\* None).  id: an "id" the caller put into transaction_data (0: none).
InsertCall(path, amount, description, category, type, date, missing, id) ==
    [path |-> path, amount |-> amount, description |-> description,
     category |-> category, type |-> type, date |-> date,
     missing |-> missing, id |-> id]

\* The successive datetime.now() reads of one call: each at or after the one
\* before, the first at or after the clock.
NowReads ==
    {r \in [1..3 -> clock..MaxClock] :
        /\ r[1] - clock <= MaxSkew
        /\ r[1] <= r[2] /\ r[2] - r[1] <= MaxSkew
        /\ r[2] <= r[3] /\ r[3] - r[2] <= MaxSkew}

\* The VALUES of an INSERT statement; nulls: the columns given NULL.
Values(amount, description, category, type, date, created_at, updated_at, nulls) ==
    [amount |-> amount, description |-> description, category |-> category,
     type |-> type, date |-> date, created_at |-> created_at,
     updated_at |-> updated_at, nulls |-> nulls]

\* A table created without the CHECK on type.
TableAcceptsAnyType(v) == v.nulls \cap RequiredFields = {}

\* The constraints of table transactions as _create_tables declares it:
\* amount, description, category and type NOT NULL, type one of the two.
TableAccepts(v) ==
    /\ v.nulls \cap RequiredFields = {}
    /\ v.type \in TransactionTypes

\* MAX(id) + 1 over the committed rows: what a table without a sequence
\* would hand out.
AssignedIdFromTable(c) == Cardinality(store) + 1

\* id SERIAL PRIMARY KEY / Field(default=None, primary_key=True): the INSERT
\* names no id, so the row takes the next value of the sequence.
AssignedId(c) == seq + 1

NewRow(id, v) ==
    [id |-> id, amount |-> v.amount, description |-> v.description,
     category |-> v.category, type |-> v.type, date |-> v.date,
     created_at |-> v.created_at, updated_at |-> v.updated_at]

\* TransactionRepository.insert_transaction up to session.add: date defaults
\* to datetime.now(); created_at and updated_at are each filled by their own
\* default_factory=datetime.now, one read after the other.
RepositoryValues(amount, description, category, type, date, nulls, r) ==
    Values(amount, description, category, type,
           IF date.kind = "absent" THEN r[1] ELSE date.t, r[2], r[3], nulls)

\* DatabaseClient.insert_transaction up to cur.execute: date defaults to
\* datetime.now(); one current_time is written to created_at and updated_at.
DatabaseClientValues(amount, description, category, type, date, r) ==
    Values(amount, description, category, type,
           IF date.kind = "absent" THEN r[1] ELSE date.t, r[2], r[2], {})

\* int(request.amount * 100): the binary product truncated toward zero.  The
\* product of a float that is a binary fraction (a multiple of 1/8 here) is
\* exact.  For any other float whose exact product is an integer N, the
\* binary product is N or lies one unit in the last place beside it, so the
\* truncation gives N or the integer next to N toward zero.  When the exact
\* product is not an integer (a third fractional digit) it is truncated.
IntOfFloatTimes100(f) ==
    LET k     == -f.exp
        exact == k = 0 \/ (f.coef * 1000) % (125 * Pow10(k)) = 0
        t     == DecTimes100(f)
        n     == IF t.exp >= 0 THEN t.coef * Pow10(t.exp)
                 ELSE TruncDiv(t.coef, Pow10(-t.exp))
    IN  IF exact \/ t.exp < 0 \/ n = 0 THEN {n} ELSE {n, n - Sgn(n)}

Error(kind, http) == [status |-> "error", kind |-> kind, http |-> http, row |-> [id |-> 0]]
Success(row, http, message) ==
    [status |-> "ok", kind |-> "", http |-> http, row |-> row, message |-> message]

\* The text the two insert tools return after the insert: the type, the
\* amount, the description and the category are the arguments of the call,
\* the amount formatted as the float it is; the id is that of the row.
SuccessMessage(c, id, amount_text) ==
    [type |-> c.type, amount |-> amount_text, description |-> c.description,
     category |-> c.category, id |-> id]

\* What the caller of an insert path gets besides the row.
Messages(c, row) ==
    IF c.path \in {"tool", "tool_new"}
    THEN {SuccessMessage(c, row.id, text) : text \in FloatFormatF2(c.amount.val)}
    ELSE {[type |-> None]}

\* The call ends before any statement reaches the database.
Fail(p, c, kind, http) ==
    /\ pc' = [pc EXCEPT ![p] = "done"]
    /\ call' = [call EXCEPT ![p] = c]
    /\ ret' = [ret EXCEPT ![p] = Error(kind, http)]
    /\ UNCHANGED <<store, seq, clock, pend, pureVars, engineVars>>

\* cur.execute(insert_sql) / session.add + flush: the sequence hands out the
\* id, then the constraints are checked; a violation ends the call, an
\* accepted row stays uncommitted until Commit.
RunInsert(p, c, v, r, http) ==
    /\ seq < MaxSeq
    /\ seq' = seq + 1
    /\ clock' = r[3]
    /\ call' = [call EXCEPT ![p] = c]
    /\ IF TableAccepts(v)
       THEN /\ pend' = [pend EXCEPT ![p] = NewRow(AssignedId(c), v)]
            /\ pc' = [pc EXCEPT ![p] = "inserted"]
            /\ UNCHANGED ret
       ELSE /\ ret' = [ret EXCEPT ![p] = Error("IntegrityError", http)]
            /\ pc' = [pc EXCEPT ![p] = "done"]
            /\ UNCHANGED pend
    /\ UNCHANGED <<store, pureVars, engineVars>>


\* Calls of insert_transaction_tool of financial_agent_new.py.
ToolNewCalls ==
    {InsertCall("tool_new", FloatArg(Dec(a, 0)), "Groceries", "groceries",
                "expense", NoDate, {}, 0) : a \in {50, -5}}

\* Calls of insert_transaction_tool of financial_agent.py.
ToolCalls ==
    {InsertCall("tool", FloatArg(Dec(125, -3)), "Groceries", "food", "expense",
                d, {}, 0) : d \in {DateAt(0), BadDate}}

\* Requests to POST /transaction/.
EndpointCalls ==
    {InsertCall("endpoint", FloatArg(Dec(a, e)), "Groceries", "groceries",
                "expense", NoDate, {}, 0) :
        <<a, e>> \in {<<-5, 0>>, <<29, -2>>, <<10555, -3>>}}
    \cup {InsertCall("endpoint", FloatArg(Dec(50, 0)), "Groceries", "groceries",
                     "expense", BadDate, {}, 0)}

\* Direct calls of DatabaseClient.insert_transaction.
DbCalls ==
    {InsertCall("db", IntArg(5000), "Groceries", "groceries", "expense", NoDate, {}, 1),
     InsertCall("db", IntArg(5000), "Groceries", "", "income", DateAt(0), {}, 0),
     InsertCall("db", IntArg(5000), "Groceries", "groceries", "refund", NoDate, {}, 0),
     InsertCall("db", IntArg(5000), "Groceries", "groceries", "expense", NoDate,
                {"description"}, 0)}

\* Direct calls of TransactionRepository.insert_transaction.
RepoCalls ==
    {InsertCall("repo", IntArg(5000), "Groceries", "food", "income", NoDate, {}, 0),
     InsertCall("repo", IntArg(5000), "Groceries", "food", "refund", DateAt(0), {}, 0),
     InsertCall("repo", IntArg(5000), "Groceries", "food", "income", NoDate,
                {"category"}, 0)}

\* insert_transaction_tool (financial_agent_new.py): validate, convert, then
\* DatabaseClient.insert_transaction; every exception becomes an error string.
InsertToolNew(p) ==
    \E c \in ToolNewCalls, r \in NowReads :
        /\ pc[p] = "idle"
        /\ IF validate_amount(c.amount).status # "ok"
           THEN Fail(p, c, validate_amount(c.amount).status, 0)
           ELSE RunInsert(p, c,
                          DatabaseClientValues(dollars_to_cents(c.amount).n,
                                               c.description, c.category, c.type,
                                               NoDate, r),
                          r, 0)

\* insert_transaction_tool (financial_agent.py): strptime, validate, convert,
\* then TransactionRepository.insert_transaction.
InsertTool(p) ==
    \E c \in ToolCalls, r \in NowReads :
        /\ pc[p] = "idle"
        /\ IF c.date.kind = "invalid" THEN Fail(p, c, "ValueError", 0)
           ELSE IF validate_amount(c.amount).status # "ok"
           THEN Fail(p, c, validate_amount(c.amount).status, 0)
           ELSE RunInsert(p, c,
                          RepositoryValues(dollars_to_cents(c.amount).n,
                                           c.description, c.category, c.type,
                                           c.date, {}, r),
                          r, 0)

\* The except clauses of create_transaction's outer try: "except ValueError"
\* answers 400; "except Exception", which any other exception reaches, an
\* HTTPException raised inside the try among them, answers 500.
create_transaction_except(exc) == IF exc = "ValueError" THEN 400 ELSE 500

\* create_transaction: datetime.fromisoformat raises ValueError for a date
\* that does not parse, and the inner except clause raises HTTPException(400)
\* in its place, inside the outer try; the amount is
\* int(request.amount * 100), with no validation.
CreateTransaction(p) ==
    \E c \in EndpointCalls, r \in NowReads :
        /\ pc[p] = "idle"
        /\ IF c.date.kind = "invalid"
           THEN Fail(p, c, "HTTPException", create_transaction_except("HTTPException"))
           ELSE \E amount_cents \in IntOfFloatTimes100(c.amount.val) :
                    RunInsert(p, c,
                              RepositoryValues(amount_cents, c.description,
                                               c.category, c.type, c.date, {}, r),
                              r, create_transaction_except("IntegrityError"))

\* DatabaseClient.insert_transaction called with a dict.
DbInsertTransaction(p) ==
    \E c \in DbCalls, r \in NowReads :
        /\ pc[p] = "idle"
        /\ IF c.missing \cap RequiredFields # {} THEN Fail(p, c, "Exception", 0)
           ELSE RunInsert(p, c,
                          DatabaseClientValues(c.amount.n, c.description,
                                               c.category, c.type, c.date, r),
                          r, 0)

\* TransactionRepository.insert_transaction called directly.
RepoInsertTransaction(p) ==
    \E c \in RepoCalls, r \in NowReads :
        /\ pc[p] = "idle"
        /\ RunInsert(p, c,
                     RepositoryValues(c.amount.n, c.description, c.category,
                                      c.type, c.date, c.missing, r),
                     r, 0)

\* conn.commit() / session.commit(): the row becomes part of the table and
\* the call returns it; a tool returns its message.
Commit(p) ==
    /\ pc[p] = "inserted"
    /\ \E message \in Messages(call[p], pend[p]) :
           ret' = [ret EXCEPT ![p] =
                      Success(pend[p], IF call[p].path = "endpoint" THEN 200 ELSE 0,
                              message)]
    /\ store' = store \cup {pend[p]}
    /\ pend' = [pend EXCEPT ![p] = [id |-> 0]]
    /\ pc' = [pc EXCEPT ![p] = "done"]
    /\ UNCHANGED <<seq, clock, call, pureVars, engineVars>>

\* TransactionRepository.insert_transaction: session.commit() has stored the
\* row; session.refresh(transaction), one more statement on the connection,
\* raises, and the call ends with an error.
RefreshFails(p) ==
    /\ pc[p] = "inserted"
    /\ call[p].path \in {"tool", "endpoint", "repo"}
    /\ store' = store \cup {pend[p]}
    /\ ret' = [ret EXCEPT ![p] =
                  Error("OperationalError",
                        IF call[p].path = "endpoint" THEN 500 ELSE 0)]
    /\ pend' = [pend EXCEPT ![p] = [id |-> 0]]
    /\ pc' = [pc EXCEPT ![p] = "done"]
    /\ UNCHANGED <<seq, clock, call, pureVars, engineVars>>

\* The connection fails before the commit: the transaction is rolled back
\* and the call ends with an error.
Abort(p) ==
    /\ pc[p] = "inserted"
    /\ ret' = [ret EXCEPT ![p] =
                  Error("OperationalError",
                        IF call[p].path = "endpoint" THEN 500 ELSE 0)]
    /\ pend' = [pend EXCEPT ![p] = [id |-> 0]]
    /\ pc' = [pc EXCEPT ![p] = "done"]
    /\ UNCHANGED <<store, seq, clock, call, pureVars, engineVars>>

\* The caller takes the result; it may call again.
Return(p) ==
    /\ pc[p] = "done"
    /\ pc' = [pc EXCEPT ![p] = "idle"]
    /\ call' = [call EXCEPT ![p] = [path |-> "none"]]
    /\ ret' = [ret EXCEPT ![p] = [status |-> "none"]]
    /\ UNCHANGED <<store, seq, clock, pend, pureVars, engineVars>>


(***************************************************************************)
(* DatabaseClient.query_transactions.                                      *)
(***************************************************************************)
MonthLen == 2    \* clock ticks in a month

\* Python truthiness of an optional text: None and "" are both false.
Truthy(x) == x # None /\ x # ""

\* DATE_TRUNC('month', CURRENT_DATE)
MonthStart(t) == (t \div MonthLen) * MonthLen

\* A WHERE clause whose date range includes the first day of the next month.
MatchesThroughNextMonthStart(row, filters, now) ==
    /\ (Truthy(filters.category) => row.category = filters.category)
    /\ (Truthy(filters.type) => row.type = filters.type)
    /\ (filters.date_range = "this_month" =>
            /\ row.date >= MonthStart(now)
            /\ row.date <= MonthStart(now) + MonthLen)

\* The WHERE clause: a condition for each filter that is set.
Matches(row, filters, now) ==
    /\ (Truthy(filters.category) => row.category = filters.category)
    /\ (Truthy(filters.type) => row.type = filters.type)
    /\ (filters.date_range = "this_month" =>
            /\ row.date >= MonthStart(now)
            /\ row.date < MonthStart(now) + MonthLen)

Matching(rows, filters, now) == {row \in rows : Matches(row, filters, now)}

SortKey(row, sort_by) == IF sort_by = "amount" THEN row.amount ELSE row.date

\* ORDER BY sort_by sort_order: every order of the rows the clause allows
\* (rows with equal keys come in any order).
RECURSIVE Ordered(_, _, _)
Ordered(rows, sort_by, sort_order) ==
    IF rows = {} THEN {<<>>}
    ELSE LET first == {r \in rows : \A x \in rows :
                          IF sort_order = "asc"
                          THEN SortKey(r, sort_by) <= SortKey(x, sort_by)
                          ELSE SortKey(r, sort_by) >= SortKey(x, sort_by)}
         IN  UNION {{<<r>> \o s : s \in Ordered(rows \ {r}, sort_by, sort_order)} :
                       r \in first}

\* The statement without its LIMIT clause.
Unlimited(s, limit) == s

\* LIMIT limit, left out when limit is None or 0 (held as 0).
Limited(s, limit) ==
    IF limit # 0 /\ limit < Len(s) THEN SubSeq(s, 1, limit) ELSE s

\* A row of the result, with the derived amount_dollars.
WithDollars(row) == [row |-> row, amount_dollars |-> cents_to_dollars(row.amount)]

RECURSIVE SumAmounts(_)
SumAmounts(rows) ==
    IF rows = {} THEN 0
    ELSE LET r == CHOOSE x \in rows : TRUE
         IN  r.amount + SumAmounts(rows \ {r})

SeqRange(s) == {s[i] : i \in 1..Len(s)}

\* The column each aggregation is selected as.
AggColumn(agg) ==
    CASE agg = "sum" -> "total_amount"
      [] agg = "count" -> "count"
      [] agg = "average" -> "average_amount"

\* The aggregate branch.  SELECT SUM(amount), COUNT(*), AVG(amount) without
\* GROUP BY always yields one row; over no rows SUM and AVG are NULL and COUNT
\* is 0.  keys: the keys of the returned dict; nulls: the keys whose value is
\* None; the average is held as the fraction num / den.  The two dollars keys
\* are added only for a value that is truthy (neither None nor 0);
\* int(average_amount) truncates toward zero.
Aggregate(rows, aggs) ==
    LET n       == Cardinality(rows)
        total   == SumAmounts(rows)
        columns == {AggColumn(a) : a \in SeqRange(aggs)}
        avgInt  == IF n = 0 THEN 0 ELSE TruncDiv(total, n)
        dollars ==
            (IF "total_amount" \in columns /\ n > 0 /\ total # 0
             THEN {"total_amount_dollars"} ELSE {})
            \cup (IF "average_amount" \in columns /\ n > 0 /\ total # 0
                  THEN {"average_amount_dollars"} ELSE {})
    IN  [kind |-> "aggregate",
         keys |-> columns \cup dollars,
         nulls |-> IF n = 0 THEN columns \cap {"total_amount", "average_amount"}
                   ELSE {},
         total_amount |-> total,
         count |-> n,
         average_amount |-> [num |-> total, den |-> n],
         total_amount_dollars |-> cents_to_dollars(total),
         average_amount_dollars |-> cents_to_dollars(avgInt)]

\* What query_transactions may return for query_params on the table rows.
QueryResults(rows, params, now) ==
    LET hit == Matching(rows, params.filters, now)
    IN  IF params.aggregations # <<>>
        THEN {Aggregate(hit, params.aggregations)}
        ELSE {[kind |-> "rows",
               rows |-> [i \in 1..Len(Limited(s, params.limit)) |->
                            WithDollars(Limited(s, params.limit)[i])]] :
                 s \in Ordered(hit, params.sort_by, params.sort_order)}

QueryParams(category, type, range, aggs, sort_by, sort_order, limit) ==
    [filters |-> [category |-> category, type |-> type, date_range |-> range],
     aggregations |-> aggs, sort_by |-> sort_by, sort_order |-> sort_order,
     limit |-> limit]

\* The query_params drawn.
QuerySet ==
    {QueryParams(c, None, None, <<>>, "date", "desc", 0) :
        c \in {None, "", "groceries", "food"}}
    \cup {QueryParams("groceries", None, None, a, "date", "desc", 0) :
            a \in {<<"sum">>, <<"count">>, <<"sum", "count", "average">>}}
    \cup {QueryParams(None, "expense", "this_month", <<>>, "amount", "asc", 1)}
    \cup {QueryParams(c, None, "this_month", <<>>, "date", "desc", 0) :
            c \in {None, "food"}}
    \cup {QueryParams(c, None, None, <<>>, "date", "desc", limit) :
            c \in {None, "food"}, limit \in {1, 3}}

\* One call of query_transactions: a single SELECT over the committed rows.
QueryTransactions(p) ==
    /\ pc[p] = "idle"
    /\ \E params \in QuerySet :
        \E result \in QueryResults(store, params, clock) :
            /\ pc' = [pc EXCEPT ![p] = "done"]
            /\ call' = [call EXCEPT ![p] =
                           [path |-> "query", params |-> params]]
            /\ ret' = [ret EXCEPT ![p] = [status |-> "ok", result |-> result]]
            /\ UNCHANGED <<store, seq, clock, pend, pureVars, engineVars>>

(***************************************************************************)
(* query_transactions_tool of financial_agent_new.py: _parse_query, then   *)
(* query_transactions, then the reply text.                                *)
(***************************************************************************)
\* results[:5]
FirstFive == 5

Min(a, b) == IF a <= b THEN a ELSE b

\* The parts of the reply for an aggregate result, joined by " | ".
AggregateParts(results) ==
    (IF "total_amount_dollars" \in results.keys
     THEN <<[part |-> "Total", text |-> FormatF2(results.total_amount_dollars)]>>
     ELSE <<>>)
    \o (IF "count" \in results.keys
        THEN <<[part |-> "Count", n |-> results.count]>> ELSE <<>>)
    \o (IF "average_amount_dollars" \in results.keys
        THEN <<[part |-> "Average", text |-> FormatF2(results.average_amount_dollars)]>>
        ELSE <<>>)

\* f"{i}. ${amount:.2f} - {description} ({category})"
TransactionLine(i, transaction) ==
    [part |-> "line", i |-> i,
     amount |-> FormatF2(transaction.amount_dollars),
     description |-> transaction.row.description,
     category |-> transaction.row.category]

\* A reply that lists every transaction of the result.
ListPartsAll(results) ==
    IF Len(results) = 0 THEN <<[part |-> "No transactions found"]>>
    ELSE <<[part |-> "Found", n |-> Len(results)]>>
             \o [i \in 1..Len(results) |-> TransactionLine(i, results[i])]

\* The reply for a list of transactions, its lines joined by "\n".
ListParts(results) ==
    LET n == Len(results)
        first_five == SubSeq(results, 1, Min(n, FirstFive))
    IN  IF n = 0 THEN <<[part |-> "No transactions found"]>>
        ELSE <<[part |-> "Found", n |-> n]>>
                 \o [i \in 1..Len(first_five) |-> TransactionLine(i, first_five[i])]
                 \o (IF n > FirstFive
                     THEN <<[part |-> "more", n |-> n - FirstFive]>> ELSE <<>>)

\* The text query_transactions_tool returns for what query_transactions
\* returned.
FormatResults(results) ==
    IF results.kind = "aggregate" THEN AggregateParts(results)
    ELSE ListParts(results.rows)

\* Utterances the language model passes to the tool.
ToolUtterances ==
    {<<"o", "n">>,
     <<"f", "o", "o", "d">>,
     <<"S", "H", "O", "P", "P", "I", "N", "G">>,
     <<"m", "o", "n", "t", "h">>,
     <<"t", "h", "i", "s", " ", "m", "o", "n", "t", "h">>,
     <<"s", "p", "e", "n", "t">>,
     <<"i", "n", "c", "o", "m", "e">>,
     <<"i", "n", "c", "o", "m", "e", " ", "c", "o", "s", "t">>,
     <<"h", "o", "w", " ", "m", "a", "n", "y">>,
     <<"t", "o", "t", "a", "l", " ", "f", "o", "o", "d">>,
     <<"f", "o", "o", "d", " ", "m", "o", "n", "t", "h">>}

\* One call of query_transactions_tool: the table is read by one SELECT; a
\* database that cannot be reached makes query_transactions raise, and the
\* tool returns the error text.  _parse_query sets no limit: held as 0.
QueryToolNew(p) ==
    /\ pc[p] = "idle"
    /\ \E query \in ToolUtterances, reachable \in BOOLEAN :
        LET query_params == [parse_query(query) EXCEPT !.limit = 0]
        IN  \E results \in QueryResults(store, query_params, clock) :
                /\ pc' = [pc EXCEPT ![p] = "done"]
                /\ call' = [call EXCEPT ![p] =
                               [path |-> "query_tool", query |-> query,
                                query_params |-> parse_query(query)]]
                /\ ret' = [ret EXCEPT ![p] =
                              IF reachable
                              THEN [status |-> "ok", reply |-> FormatResults(results)]
                              ELSE [status |-> "error", reply |-> <<>>]]
                /\ UNCHANGED <<store, seq, clock, pend, pureVars, engineVars>>

(***************************************************************************)
(* query_transactions_tool of financial_agent.py: the text the language    *)
(* model returns is run by DatabaseClient.execute_sql as it is.            *)
(***************************************************************************)
\* A statement the model may write: verb SELECT or DELETE on the rows of a
\* category (None: no WHERE clause), with or without a RETURNING clause, or
\* words that are not SQL (verb "text").
SqlStatement(verb, category, returning) ==
    [verb |-> verb, category |-> category, returning |-> returning]

SqlStatements ==
    {SqlStatement("SELECT", c, FALSE) : c \in {None, "groceries"}}
    \cup {SqlStatement("DELETE", c, b) : c \in {None, "groceries"}, b \in BOOLEAN}
    \cup {SqlStatement("text", None, FALSE)}

\* The rows a statement addresses.
SqlTarget(stmt, rows) ==
    IF stmt.category = None THEN rows
    ELSE {r \in rows : r.category = stmt.category}

\* cur.execute(sql) succeeds unless the text is not SQL; cur.fetchall() raises
\* when the statement produced no result set (a DELETE without RETURNING).
SqlRaises(stmt) ==
    stmt.verb = "text" \/ (stmt.verb = "DELETE" /\ ~stmt.returning)

\* The table after the with-block of execute_sql: leaving "with conn" by the
\* return commits the transaction, leaving it by an exception rolls it back.
SqlTableAfter(stmt, rows) ==
    IF stmt.verb = "DELETE" /\ ~SqlRaises(stmt) THEN rows \ SqlTarget(stmt, rows)
    ELSE rows

\* The content of the model's reply, piece by piece: white space, a markdown
\* code fence (``` or ```sql), or the statement.
Space == [piece |-> "space"]
Fence == [piece |-> "fence"]
Sql(stmt) == [piece |-> "sql", stmt |-> stmt]

\* The replies of the model for a statement: the statement alone, the
\* statement between white space, inside a code fence, and inside a code
\* fence between white space.
LlmReplies(stmt) ==
    {<<Sql(stmt)>>,
     <<Space, Sql(stmt), Space>>,
     <<Fence, Space, Sql(stmt), Space, Fence>>,
     <<Space, Fence, Space, Sql(stmt), Space, Fence, Space>>}

\* str.strip(): the text without its leading and trailing white space.
RECURSIVE Strip(_)
Strip(text) ==
    IF Len(text) = 0 THEN text
    ELSE IF text[1] = Space THEN Strip(Tail(text))
    ELSE IF text[Len(text)] = Space THEN Strip(SubSeq(text, 1, Len(text) - 1))
    ELSE text

\* The text is one statement and nothing else.
IsStatement(text) == Len(text) = 1 /\ text[1].piece = "sql"

\* cur.execute(text) raises a syntax error for a text that is not one
\* statement (a code fence is not SQL).
ExecuteRaises(text) == ~IsStatement(text) \/ SqlRaises(text[1].stmt)

\* One call of query_transactions_tool (financial_agent.py): llm.invoke gives
\* the reply, its content is stripped and execute_sql runs it; any exception
\* becomes an error string.
ExecuteSql(p) ==
    /\ pc[p] = "idle"
    /\ \E stmt \in SqlStatements :
        \E content \in LlmReplies(stmt) :
            LET sql_query == Strip(content)
            IN  /\ pc' = [pc EXCEPT ![p] = "done"]
                /\ call' = [call EXCEPT ![p] =
                               [path |-> "sql", stmt |-> stmt, content |-> content,
                                sql_query |-> sql_query]]
                /\ store' = IF ExecuteRaises(sql_query) THEN store
                            ELSE SqlTableAfter(stmt, store)
                /\ ret' = [ret EXCEPT ![p] =
                              IF ExecuteRaises(sql_query)
                              THEN [status |-> "error", kind |-> "Exception"]
                              ELSE [status |-> "ok", result |-> SqlTarget(stmt, store)]]
                /\ UNCHANGED <<seq, clock, pend, pureVars, engineVars>>

(***************************************************************************)
(* FinancialAgent.chat of financial_agent.py: agent.invoke runs the        *)
(* language model, which may call one of the two tools, and chat returns   *)
(* its output.                                                             *)
(***************************************************************************)
\* How a call ends: it returns a text or it raises an exception.
Returned(text) == [kind |-> "return", text |-> text]
Raised(exc) == [kind |-> "raise", text |-> exc]

\* A function body that catches nothing.
NoExcept(outcome, text) == outcome

\* except Exception as e: return f"<text>: {str(e)}"
ExceptException(outcome, text) ==
    IF outcome.kind = "raise" THEN Returned(text) ELSE outcome

\* What the tool the agent called gave back: both tools catch every
\* exception and return a text (pc "idle": the agent has called no tool).
ToolReturn(p) ==
    IF pc[p] = "idle" THEN Returned("no tool")
    ELSE IF call[p].path = "sql"
    THEN ExceptException(IF ret[p].status = "ok" THEN Returned("results")
                         ELSE Raised(ret[p].kind),
                         "Error querying transactions")
    ELSE ExceptException(IF ret[p].status = "ok" THEN Returned("Successfully recorded")
                         ELSE Raised(ret[p].kind),
                         "Error inserting transaction")

\* self.agent.invoke(...) and result["output"]: the executor returns the
\* model's last reply, built on the tool's text, or a call of the language
\* model raises (before or after the tool ran).
AgentInvoke(p) ==
    {Returned(<<"output", ToolReturn(p).text>>), Raised("APIError")}

\* FinancialAgent.chat from agent.invoke on.
chat(outcome) == ExceptException(outcome, "Error processing your request")

\* chat ends: the tool the agent chose, if any, has returned.
Chat(p) ==
    /\ \/ pc[p] = "idle"
       \/ pc[p] = "done" /\ call[p].path \in {"tool", "sql"}
    /\ \E outcome \in AgentInvoke(p) :
        /\ pc' = [pc EXCEPT ![p] = "done"]
        /\ call' = [call EXCEPT ![p] =
                       [path |-> "chat",
                        tool |-> IF pc[p] = "idle" THEN "none" ELSE call[p].path,
                        failed |-> outcome.kind = "raise"
                                      \/ (pc[p] = "done" /\ ret[p].status = "error")]]
        /\ ret' = [ret EXCEPT ![p] = chat(outcome)]
        /\ UNCHANGED <<store, seq, clock, pend, pureVars, engineVars>>

(***************************************************************************)
(* POST /chat/stream of api.py: event_generator turns what                 *)
(* financial_agent.stream_chat yields into server-sent events.             *)
(***************************************************************************)
\* A request: the message, and whether the language model can be reached
\* (when it can, the agent answers the message).
ChatRequests ==
    {[message |-> m, llm_up |-> b] :
        m \in {"How much did I spend on food?", "I spent $50 on groceries"},
        b \in BOOLEAN}

\* How an asynchronous producer behaves: the chunks it yields, then it ends
\* or raises exc.
Producer(chunks, raises, exc) == [chunks |-> chunks, raises |-> raises, exc |-> exc]

\* financial_agent.stream_chat(message=..., chat_history=...): the class
\* FinancialAgent that api.py imports defines __init__, _create_agent and
\* chat only, so the attribute lookup raises AttributeError for every
\* request, before anything is yielded.
stream_chat(request) == {Producer(<<>>, TRUE, "AttributeError")}

Event(status, content) == [status |-> status, content |-> content]

NonEmptyChunk(chunk) == chunk # ""

\* event_generator: one "streaming" event for each non-empty chunk, in
\* order, then the "complete" event; an exception of the producer ends the
\* loop and the except clause yields one "error" event.
event_generator(producer) ==
    LET content == SelectSeq(producer.chunks, NonEmptyChunk)
    IN  [i \in 1..Len(content) |-> Event("streaming", content[i])]
            \o <<IF producer.raises THEN Event("error", producer.exc)
                 ELSE Event("complete", "")>>

\* One request to POST /chat/stream, with the whole response stream.
StreamChat(p) ==
    \E request \in ChatRequests :
        \E producer \in stream_chat(request) :
            /\ pc[p] = "idle"
            /\ pc' = [pc EXCEPT ![p] = "done"]
            /\ call' = [call EXCEPT ![p] = [path |-> "stream", request |-> request]]
            /\ ret' = [ret EXCEPT ![p] =
                          [status |-> "stream", events |-> event_generator(producer)]]
            /\ UNCHANGED <<store, seq, clock, pend, pureVars, engineVars>>

(***************************************************************************)
(* POST /gmail/connect of gmail_routes.py, which depends on                *)
(* get_current_user of auth_service.py.                                    *)
(***************************************************************************)
\* What cognito_client.get_user(AccessToken=token) does: it returns the user
\* ("user": with all attributes, "user_no_email": without the email
\* attribute), it raises ClientError with the error code of the service, or
\* it raises a BotoCoreError because the service was not reached.
GetUserOutcomes ==
    {"user", "user_no_email", "NotAuthorizedException", "TooManyRequestsException",
     "EndpointConnectionError"}

ClientErrorCodes == {"NotAuthorizedException", "TooManyRequestsException"}

\* The response to a request: the HTTP status and whether the body of the
\* endpoint's handler ran.
Response(code, body_ran) == [status |-> "http", code |-> code, body_ran |-> body_ran]

\* verify_token: UserInfo on success; HTTPException(401) for a ClientError,
\* whatever its code; any other exception is not caught (UserInfo(...) raises
\* ValidationError when a required attribute is None).
verify_token(outcome) ==
    IF outcome = "user" THEN Returned("UserInfo")
    ELSE IF outcome = "user_no_email" THEN Raised("ValidationError")
    ELSE IF outcome \in ClientErrorCodes THEN Raised("HTTPException401")
    ELSE Raised(outcome)

\* get_current_user: return await verify_token(credentials.credentials)
get_current_user(outcome) == verify_token(outcome)

\* store_google_tokens as the framework serves it: the dependency is
\* resolved first; an HTTPException it raises becomes the response, any
\* other exception a 500, and the body does not run.  The body reads
\* user_info.user_id, which UserInfo does not have: the AttributeError is
\* caught by the body's except clause and becomes a 500.
store_google_tokens(outcome) ==
    LET user == get_current_user(outcome)
    IN  IF user.kind = "return" THEN Response(500, TRUE)
        ELSE IF user.text = "HTTPException401" THEN Response(401, FALSE)
        ELSE Response(500, FALSE)

\* One request to POST /gmail/connect that carries a bearer token.
GmailConnect(p) ==
    \E outcome \in GetUserOutcomes :
        /\ pc[p] = "idle"
        /\ pc' = [pc EXCEPT ![p] = "done"]
        /\ call' = [call EXCEPT ![p] = [path |-> "gmail", get_user |-> outcome]]
        /\ ret' = [ret EXCEPT ![p] = store_google_tokens(outcome)]
        /\ UNCHANGED <<store, seq, clock, pend, pureVars, engineVars>>

(***************************************************************************)
(* DatabaseEngine of sqlalchemy_db.py: __new__ and __init__, a statement   *)
(* at a time, run by threads that the interpreter may switch between any   *)
(* two statements.                                                         *)
(***************************************************************************)
Threads == {"t1", "t2"}

MaxConstructions == 2    \* most DatabaseEngine() calls of one thread

\* _instance (0: None) and _initialized; the objects object.__new__ has
\* made, numbered from 1; the engines and session factories created; the
\* objects the finished constructions yielded.
EngineIdle ==
    /\ engine = [instance |-> 0, initialized |-> FALSE, objects |-> 0,
                 engines |-> 0, session_locals |-> 0, yielded |-> {}]
    /\ thread = [t \in Threads |-> [pc |-> "idle", self |-> 0, calls |-> 0]]

\* A step of thread t that takes it to pc and leaves the store alone.
Goto(t, next, self) ==
    /\ thread' = [thread EXCEPT ![t].pc = next, ![t].self = self]
    /\ UNCHANGED <<storeVars, pureVars>>

\* DatabaseEngine(): the call starts, as TransactionRepository.__init__
\* makes it.
Construct(t) ==
    /\ thread[t].pc = "idle"
    /\ thread[t].calls < MaxConstructions
    /\ thread' = [thread EXCEPT ![t].pc = "new", ![t].self = 0,
                                ![t].calls = thread[t].calls + 1]
    /\ UNCHANGED <<engine, storeVars, pureVars>>

\* __new__: if cls._instance is None
NewTest(t) ==
    /\ thread[t].pc = "new"
    /\ Goto(t, IF engine.instance = 0 THEN "new_create" ELSE "new_return", 0)
    /\ UNCHANGED engine

\* __new__: cls._instance = super().__new__(cls)
NewCreate(t) ==
    /\ thread[t].pc = "new_create"
    /\ engine' = [engine EXCEPT !.objects = engine.objects + 1,
                                !.instance = engine.objects + 1]
    /\ Goto(t, "new_return", 0)

\* __new__: return cls._instance; __init__ is then called on that object.
NewReturn(t) ==
    /\ thread[t].pc = "new_return"
    /\ Goto(t, "init", engine.instance)
    /\ UNCHANGED engine

\* __init__: if not self._initialized
InitTest(t) ==
    /\ thread[t].pc = "init"
    /\ Goto(t, IF engine.initialized THEN "return" ELSE "create_engine",
            thread[t].self)
    /\ UNCHANGED engine

\* __init__: self.database_url = ...; self.engine = self._create_engine()
CreateEngine(t) ==
    /\ thread[t].pc = "create_engine"
    /\ engine' = [engine EXCEPT !.engines = engine.engines + 1]
    /\ Goto(t, "create_session_local", thread[t].self)

\* __init__: self.session_local = self._create_session_local()
CreateSessionLocal(t) ==
    /\ thread[t].pc = "create_session_local"
    /\ engine' = [engine EXCEPT !.session_locals = engine.session_locals + 1]
    /\ Goto(t, "mark", thread[t].self)

\* __init__: DatabaseEngine._initialized = True
MarkInitialized(t) ==
    /\ thread[t].pc = "mark"
    /\ engine' = [engine EXCEPT !.initialized = TRUE]
    /\ Goto(t, "return", thread[t].self)

\* The construction yields the object to its caller.
Constructed(t) ==
    /\ thread[t].pc = "return"
    /\ engine' = [engine EXCEPT !.yielded = engine.yielded \cup {thread[t].self}]
    /\ Goto(t, "idle", thread[t].self)

(***************************************************************************)
(* Spec: the store under concurrent calls of the two chat insert tools and *)
(* of the endpoint.                                                        *)
(***************************************************************************)
StoreInit ==
    /\ store = {}
    /\ seq = 0
    /\ clock = 0
    /\ pc = [p \in Callers |-> "idle"]
    /\ call = [p \in Callers |-> [path |-> "none"]]
    /\ pend = [p \in Callers |-> [id |-> 0]]
    /\ ret = [p \in Callers |-> [status |-> "none"]]
    /\ EngineIdle

PureIdle ==
    /\ fnIn = IntArg(0)
    /\ fnOp = "none"
    /\ fnOut = [status |-> "none"]

Init == StoreInit /\ PureIdle

Next ==
    \E p \in Callers :
        \/ InsertToolNew(p)
        \/ InsertTool(p)
        \/ CreateTransaction(p)
        \/ Commit(p)
        \/ Abort(p)
        \/ Return(p)

Spec == Init /\ [][Next]_vars

(***************************************************************************)
(* SpecStore: concurrent direct calls of the two insert_transaction        *)
(* methods, with arguments the tools and the endpoint never pass.          *)
(***************************************************************************)
StoreNext ==
    \E p \in Callers :
        \/ DbInsertTransaction(p)
        \/ RepoInsertTransaction(p)
        \/ Commit(p)
        \/ Abort(p)
        \/ Return(p)

SpecStore == Init /\ [][StoreNext]_vars

(***************************************************************************)
(* SpecQuery: one caller that inserts and queries.                         *)
(* A query is a single SELECT, so it sees the table as some sequence of    *)
(* commits left it.                                                        *)
(***************************************************************************)
QueryNext ==
    \/ DbInsertTransaction("a")
    \/ InsertToolNew("a")
    \/ CreateTransaction("a")
    \/ Commit("a")
    \/ Return("a")
    \/ QueryTransactions("a")

SpecQuery == Init /\ [][QueryNext]_vars

(***************************************************************************)
(* SpecTools: one caller that inserts and calls the query tool of either   *)
(* agent: the keyword strategy (query_transactions) and the generated-SQL  *)
(* strategy (execute_sql).                                                 *)
(***************************************************************************)
ToolsNext ==
    \/ InsertTool("a")
    \/ InsertToolNew("a")
    \/ Commit("a")
    \/ Abort("a")
    \/ RefreshFails("a")
    \/ Return("a")
    \/ QueryTransactions("a")
    \/ ExecuteSql("a")

SpecTools == Init /\ [][ToolsNext]_vars

(***************************************************************************)
(* SpecChat: one client of the API: conversation with the agent of         *)
(* financial_agent.py through chat and through the streaming endpoint, and *)
(* requests to /gmail/connect.  Every tool call is made by the agent       *)
(* inside a chat call, and the caller takes the result of chat.            *)
(***************************************************************************)
ChatNext ==
    \/ InsertTool("a")
    \/ Commit("a")
    \/ Abort("a")
    \/ ExecuteSql("a")
    \/ Chat("a")
    \/ StreamChat("a")
    \/ GmailConnect("a")
    \/ (call["a"].path \in {"chat", "stream", "gmail"} /\ Return("a"))

SpecChat == Init /\ [][ChatNext]_vars

(***************************************************************************)
(* SpecReport: queries over a table that earlier inserts have filled.      *)
(***************************************************************************)
MaxRows == 7     \* most rows of a drawn table

\* How the rows of a drawn table are laid out: every every-th row is of
\* category food, the others shopping; the dates are all different, equal in
\* pairs, or fall as the id rises.
TableLayouts ==
    {[every |-> e, dates |-> d] :
        e \in 1..3, d \in {"distinct", "paired", "backward"}}

\* The table after n committed inserts with user-supplied dates.
Table(n, layout) ==
    {[id |-> i, amount |-> 101 * i, description |-> "Groceries",
      category |-> IF i % layout.every = 0 THEN "food" ELSE "shopping",
      type |-> IF i % 2 = 1 THEN "expense" ELSE "income",
      date |-> CASE layout.dates = "distinct" -> i - 1
                 [] layout.dates = "paired" -> (i - 1) \div 2
                 [] OTHER -> n - i,
      created_at |-> 0, updated_at |-> 0] : i \in 1..n}

Tables == {Table(n, layout) : n \in 0..MaxRows, layout \in TableLayouts}

\* The times a query runs at: the first three months.
ReportTimes == 0..(3 * MonthLen - 1)

ReportInit ==
    /\ store \in Tables
    /\ seq = Cardinality(store)
    /\ clock \in ReportTimes
    /\ pc = [p \in Callers |-> "idle"]
    /\ call = [p \in Callers |-> [path |-> "none"]]
    /\ pend = [p \in Callers |-> [id |-> 0]]
    /\ ret = [p \in Callers |-> [status |-> "none"]]
    /\ PureIdle
    /\ EngineIdle

ReportNext ==
    \/ QueryToolNew("a")
    \/ QueryTransactions("a")
    \/ Return("a")

SpecReport == ReportInit /\ [][ReportNext]_vars

(***************************************************************************)
(* SpecEngine: threads that construct DatabaseEngine, each several times.  *)
(***************************************************************************)
EngineNext ==
    \E t \in Threads :
        \/ Construct(t)
        \/ NewTest(t)
        \/ NewCreate(t)
        \/ NewReturn(t)
        \/ InitTest(t)
        \/ CreateEngine(t)
        \/ CreateSessionLocal(t)
        \/ MarkInitialized(t)
        \/ Constructed(t)

SpecEngine == Init /\ [][EngineNext]_vars

(***************************************************************************)
(* SpecPure: the pure functions applied to drawn arguments.                *)
(***************************************************************************)
MaxWords == 3    \* most words of a drawn utterance

TextAlphabet == {"0", "1", "5", ".", "-"}

SpecialTexts ==
    {<<"1", "0", ".", "5", "5", "5">>,
     <<"1", "0", ".", "5", "5", "4">>,
     <<"1", "0", ".", "5", "4", "5">>,
     <<"-", "0", ".", "0", "1">>,
     <<"1", "0", ".", "5", "0">>,
     <<"-", "0", ".", "0", "0", "4">>,
     <<"a", "b", "c">>}

Texts == (UNION {[1..k -> TextAlphabet] : k \in 0..MaxLen}) \cup SpecialTexts

Coefs == (-MaxSmall..MaxSmall) \cup {10554, 10555, -10555, 10545, 1050, 5000}

\* 9,999,999 and 10,000,000 dollars and their neighbours: the $10 million limit.
BigDecimals ==
    {Dec(9999999, 0), Dec(10000000, 0), Dec(10000001, 0), Dec(1000000, 1),
     Dec(999999999, -2), Dec(1000000000, -2), Dec(1000000001, -2)}

Decimals == {Dec(c, e) : c \in Coefs, e \in (-MaxFrac)..0} \cup BigDecimals

\* Floats, each held as its shortest repr (no trailing fractional zero).
Floats == {d \in Decimals : d.exp = 0 \/ (d.exp < 0 /\ d.coef % 10 # 0)}

IntAmounts == {-1050, -1, 0, 1, 1050, 5000, 999999999, 1000000000}

CodecArgs ==
    {StrArg(t) : t \in Texts} \cup {FloatArg(d) : d \in Floats}
        \cup {DecimalArg(d) : d \in Decimals} \cup {IntArg(i) : i \in IntAmounts}

Utterances ==
    {JoinWords(ws) : ws \in UNION {[1..k -> Vocabulary] : k \in 0..MaxWords}}
        \cup {FoodUtterance}

UtteranceArg(t) == [kind |-> "utterance", text |-> t, val |-> Dec(0, 0), n |-> 0]

PureArgs == CodecArgs \cup {UtteranceArg(t) : t \in Utterances}

PureInit ==
    /\ fnIn \in PureArgs
    /\ fnOp = "none"
    /\ fnOut = [status |-> "none"]
    /\ StoreInit

Apply(op, result) ==
    /\ fnOp = "none"
    /\ fnOp' = op
    /\ fnOut' = result
    /\ UNCHANGED <<fnIn, storeVars, engineVars>>

DollarsToCents ==
    /\ fnIn.kind \in {"str", "float", "decimal", "int"}
    /\ Apply("dollars_to_cents", dollars_to_cents(fnIn))

\* cents_to_dollars(dollars_to_cents(d))
RoundTrip ==
    /\ fnIn.kind \in {"str", "float", "decimal"}
    /\ LET c == dollars_to_cents(fnIn)
       IN  Apply("round_trip",
                 IF c.status = "ok"
                 THEN [status |-> "ok", d |-> cents_to_dollars(c.n)]
                 ELSE [status |-> c.status, d |-> Dec(0, 0)])

ValidateAmount ==
    /\ fnIn.kind \in {"str", "float", "decimal", "int"}
    /\ Apply("validate_amount", validate_amount(fnIn))

ParseQuery ==
    /\ fnIn.kind = "utterance"
    /\ Apply("parse_query", parse_query(fnIn.text))

PureNext == DollarsToCents \/ RoundTrip \/ ValidateAmount \/ ParseQuery

SpecPure == PureInit /\ [][PureNext]_vars

(***************************************************************************)
(* SpecCents: the functions of utils.py that take an amount in cents,      *)
(* applied to drawn integers.                                              *)
(***************************************************************************)
MaxDrawnCents == 300   \* every amount -MaxDrawnCents..MaxDrawnCents is drawn

Cents ==
    (-MaxDrawnCents..MaxDrawnCents)
        \cup {1050, -1050, 5000, 123456, -123456, 999999999, -999999999, 1000000000}

CentsInit ==
    /\ fnIn \in {IntArg(n) : n \in Cents}
    /\ fnOp = "none"
    /\ fnOut = [status |-> "none"]
    /\ StoreInit

FormatCurrency ==
    /\ fnIn.kind = "int"
    /\ Apply("format_currency", [status |-> "ok", text |-> format_currency(fnIn.n)])

\* dollars_to_cents(cents_to_dollars(n)): the Decimal goes back through
\* dollars_to_cents.
CentsRoundTrip ==
    LET d == cents_to_dollars(fnIn.n)
        c == dollars_to_cents(DecimalArg(d))
    IN  /\ fnIn.kind = "int"
        /\ Apply("cents_round_trip", [status |-> c.status, d |-> d, n |-> c.n])

CentsNext == FormatCurrency \/ CentsRoundTrip

SpecCents == CentsInit /\ [][CentsNext]_vars

(***************************************************************************)
(* SpecAmountString: parse_amount_string applied to drawn texts.           *)
(***************************************************************************)
AmountAlphabet == {"$", ",", " ", ".", "0", "1", "5"}

\* The texts of the docstring, and one with every decoration.
DocumentedAmountStrings ==
    {<<"$", "1", "0", ".", "5", "0">>,
     <<"1", "0", ".", "5", "0">>,
     <<"1", "0", "5", "0">>,
     <<" ", "$", "1", ",", "0", "5", "0", ".", "0", "0", " ">>}

AmountStrings ==
    (UNION {[1..k -> AmountAlphabet] : k \in 0..MaxLen}) \cup DocumentedAmountStrings

AmountStringInit ==
    /\ fnIn \in {StrArg(t) : t \in AmountStrings}
    /\ fnOp = "none"
    /\ fnOut = [status |-> "none"]
    /\ StoreInit

ParseAmountString ==
    /\ fnIn.kind = "str"
    /\ Apply("parse_amount_string", parse_amount_string(fnIn.text))

AmountStringNext == ParseAmountString

SpecAmountString == AmountStringInit /\ [][AmountStringNext]_vars

(***************************************************************************)
(* Claims about the pure functions (checked under SpecPure).               *)
(***************************************************************************)
\* The argument denotes a decimal amount: a float, a Decimal, or a text that
\* Decimal() accepts.
IsAmount(arg) ==
    \/ arg.kind \in {"float", "decimal"}
    \/ arg.kind = "str" /\ ParseDecimal(arg.text).status = "ok"

\* The decimal amount the argument denotes.
AmountOf(arg) == IF arg.kind = "str" THEN ParseDecimal(arg.text).val ELSE arg.val

AtMostTwoFractionalDigits(d) == d.exp >= -2 \/ d.coef % Pow10(-d.exp - 2) = 0

\* n is d * 100 rounded to the nearest integer, a tie going away from zero.
IsHalfUpCents(d, n) ==
    LET e == d.exp + 2
    IN  IF e >= 0 THEN n = d.coef * Pow10(e)
        ELSE LET p == Pow10(-e)
                 diff == Abs(n * p - d.coef)
             IN  /\ 2 * diff <= p
                 /\ (2 * diff = p => Abs(n) * p > Abs(d.coef))

\* C1: for every decimal amount d with at most two fractional digits, given as
\* text, float or Decimal, cents_to_dollars(dollars_to_cents(d)) equals d.
C1_RoundTripExact ==
    (fnOp = "round_trip" /\ IsAmount(fnIn) /\ AtMostTwoFractionalDigits(AmountOf(fnIn)))
        => (fnOut.status = "ok" /\ DecEq(fnOut.d, AmountOf(fnIn)))

\* The text "10.50" has gone through the round trip and came back as 10.5.
C1_Witness ==
    /\ fnOp = "round_trip"
    /\ fnIn = StrArg(<<"1", "0", ".", "5", "0">>)
    /\ fnOut = [status |-> "ok", d |-> Dec(105, -1)]

\* C2: for every decimal amount, dollars_to_cents returns amount x 100 rounded
\* to the nearest integer, ties away from zero; 10.555 gives 1056 and 10.554
\* gives 1055, also when the amount is given as a float.
C2_HalfUp ==
    (fnOp = "dollars_to_cents" /\ IsAmount(fnIn))
        => /\ fnOut.status = "ok"
           /\ IsHalfUpCents(AmountOf(fnIn), fnOut.n)
           /\ (DecEq(AmountOf(fnIn), Dec(10555, -3)) => fnOut.n = 1056)
           /\ (DecEq(AmountOf(fnIn), Dec(10554, -3)) => fnOut.n = 1055)

\* The float 10.555 has been converted, to 1056.
C2_Witness ==
    /\ fnOp = "dollars_to_cents"
    /\ fnIn = FloatArg(Dec(10555, -3))
    /\ fnOut = Ok(1056)

\* C3: validate_amount fails with ValueError for every negative amount and for
\* every amount whose minor-unit value exceeds 999,999,999, and returns True
\* for every other amount; an integer argument is taken as minor units, any
\* other argument as a major-unit value.
C3_ValidateRejectsNegative ==
    (fnOp = "validate_amount" /\ (fnIn.kind = "int" \/ IsAmount(fnIn)))
        => LET invalid ==
                   IF fnIn.kind = "int"
                   THEN fnIn.n < 0 \/ fnIn.n > 999999999
                   ELSE AmountOf(fnIn).coef < 0
                            \/ dollars_to_cents(fnIn).n > 999999999
           IN  fnOut.status = (IF invalid THEN "ValueError" ELSE "ok")

\* C6: _parse_query applied to "How much did I spend on food this month?"
\* yields category "food", type "expense", date_range "this_month" and the
\* aggregations ["sum"].
C6_FoodUtteranceSpec ==
    (fnOp = "parse_query" /\ fnIn.text = FoodUtterance)
        => /\ fnOut.filters = [category |-> "food", type |-> "expense",
                               date_range |-> "this_month"]
           /\ fnOut.aggregations = <<"sum">>

(***************************************************************************)
(* Claims about the store written by the chat insert tools and the         *)
(* endpoint (checked under Spec).                                          *)
(***************************************************************************)
\* C4: in every reachable state, after any sequence of inserts made through
\* the chat insert tools and the transaction-creation endpoint, every stored
\* amount is an integer with 0 <= amount <= 999,999,999.
C4_StoredAmountsInRange ==
    \A r \in store : 0 <= r.amount /\ r.amount <= 999999999

\* C9: every record returned by a successful insert carries an id assigned by
\* the store and has created_at equal to updated_at, both the time of the
\* insert; when no date was given, date is a reading of the clock during the
\* insert as well.
C9_StampedAtInsert ==
    \A p \in Callers :
        (pc[p] = "done" /\ ret[p].status = "ok")
            => /\ ret[p].row.id \in 1..seq
               /\ ret[p].row.created_at = ret[p].row.updated_at
               /\ ret[p].row.created_at <= clock
               /\ (call[p].date.kind = "absent" => ret[p].row.date <= clock)

\* C10: under any interleaving of concurrent insert calls, an insert that
\* returns successfully has added exactly one row, the returned one; its id
\* comes from the sequence of the store and is the id of no row stored before;
\* the ids of the stored rows are pairwise distinct; no step changes or
\* removes a stored row, and the table changes only when an insert succeeds.
C10_InsertsIsolated ==
    [][/\ store \subseteq store'
       /\ \A p \in Callers :
              (pc[p] = "inserted" /\ pc'[p] = "done" /\ ret'[p].status = "ok")
                  => /\ store' = store \cup {ret'[p].row}
                     /\ Cardinality(store') = Cardinality(store) + 1
                     /\ \A r \in store : r.id # ret'[p].row.id
                     /\ ret'[p].row.id \in 1..seq
       /\ (store' # store =>
              \E p \in Callers :
                  pc[p] = "inserted" /\ pc'[p] = "done" /\ ret'[p].status = "ok")
       /\ \A r1, r2 \in store' : r1.id = r2.id => r1 = r2]_vars

\* Caller "a" ran its INSERT through the endpoint first (id 1) and has not
\* committed; caller "b" ran a chat insert tool after it, committed, and got
\* back the one stored row, with id 2.
C10_Witness ==
    /\ pc["a"] = "inserted" /\ call["a"].path = "endpoint" /\ pend["a"].id = 1
    /\ pc["b"] = "done" /\ call["b"].path \in {"tool", "tool_new"}
    /\ ret["b"].status = "ok" /\ ret["b"].row.id = 2
    /\ store = {ret["b"].row}

(***************************************************************************)
(* Claim about the two insert_transaction methods (checked under           *)
(* SpecStore).                                                             *)
(***************************************************************************)
\* The call leaves out a required field or names a type that is neither
\* expense nor income.
InvalidInsert(c) ==
    c.missing \cap RequiredFields # {} \/ c.type \notin TransactionTypes

C5_EmptyAggregateIsZero ==
    (/\ pc["a"] = "done" /\ call["a"].path = "query"
     /\ call["a"].params.aggregations # <<>>
     /\ Matching(store, call["a"].params.filters, clock) = {})
        => LET result == ret["a"].result
               asked  == {AggColumn(g) : g \in SeqRange(call["a"].params.aggregations)}
           IN  /\ ret["a"].status = "ok"
               /\ asked \subseteq result.keys
               /\ result.nulls = {}
               /\ ("total_amount" \in asked => result.total_amount = 0)
               /\ ("count" \in asked => result.count = 0)

\* C7: after a successful insert of a transaction with category c, a
\* non-aggregate query with no other filter than {category: c} and no limit
\* returns every stored transaction of category c, each
\* with amount_dollars equal to its amount divided by 100, and returns only
\* stored transactions of category c; with the category filter unset it
\* returns every stored transaction.
C7_CategoryRoundTrip ==
    (/\ pc["a"] = "done" /\ call["a"].path = "query"
     /\ call["a"].params.aggregations = <<>>
     /\ call["a"].params.filters.type = None
     /\ call["a"].params.filters.date_range = None
     /\ call["a"].params.limit = 0
     /\ \/ call["a"].params.filters.category = None
        \/ \E r \in store : r.category = call["a"].params.filters.category)
        => LET c    == call["a"].params.filters.category
               rows == ret["a"].result.rows
               want == IF c = None THEN store
                       ELSE {r \in store : r.category = c}
           IN  /\ \A r \in want :
                      \E i \in 1..Len(rows) :
                          /\ rows[i].row = r
                          /\ DecEq(rows[i].amount_dollars, Dec(r.amount, -2))
               /\ \A i \in 1..Len(rows) : rows[i].row \in want

(***************************************************************************)
(* Claims about the query tools (checked under SpecTools).                 *)
(***************************************************************************)
\* C11: a call of the query tool never changes the transaction store, under
\* the keyword strategy and under the generated-SQL strategy, whatever
\* statement the model returns: the table after the call is the table
\* before it.
C11_QueryToolReadOnly ==
    [][(pc["a"] = "idle" /\ pc'["a"] = "done" /\ call'["a"].path \in {"query", "sql"})
           => store' = store]_vars

(***************************************************************************)
(* Claim about FinancialAgent.chat (checked under SpecChat).               *)
(***************************************************************************)
\* C12: chat never raises to its caller: when the insert tool, the query
\* tool or the agent invocation has failed, the call has returned a text
\* that describes the error; after the call the caller can take the result,
\* and whenever no call is running a further chat call can be made and end.
C12_ChatNeverRaises ==
    /\ call["a"].path = "chat"
           => /\ pc["a"] = "done"
              /\ ret["a"].kind = "return"
              /\ (call["a"].failed =>
                     \/ ret["a"].text = "Error processing your request"
                     \/ ret["a"].text \in {<<"output", "Error inserting transaction">>,
                                           <<"output", "Error querying transactions">>})
              /\ ENABLED Return("a")
    /\ pc["a"] = "idle" => ENABLED Chat("a")

\* The agent invocation raised after the insert tool had failed (a commit
\* that did not go through left the table empty), and chat returned the
\* error text.
C12_Witness ==
    /\ call["a"].path = "chat" /\ call["a"].tool = "tool" /\ call["a"].failed
    /\ ret["a"] = Returned("Error processing your request")
    /\ seq = 1 /\ store = {}

(***************************************************************************)
(* Claims about the functions on cents (checked under SpecCents).          *)
(***************************************************************************)
\* C13: for every integer amount n in cents, format_currency(n) is "$D.CC"
\* when n >= 0 and "-$D.CC" when n < 0, with D = |n| div 100 in decimal
\* digits and CC = |n| mod 100 in two digits; 1050 gives "$10.50" and -1050
\* gives "-$10.50"; the sign never comes after the currency symbol.
C13_FormatCurrency ==
    fnOp = "format_currency"
        => LET n == fnIn.n
               t == fnOut.text
               body == NatToDigits(Abs(n) \div 100) \o <<".">>
                           \o <<Digits[((Abs(n) % 100) \div 10) + 1],
                                Digits[(Abs(n) % 10) + 1]>>
           IN  /\ t = (IF n < 0 THEN <<"-", "$">> ELSE <<"$">>) \o body
               /\ \A i, j \in 1..Len(t) : (t[i] = "$" /\ t[j] = "-") => j < i
               /\ (n = 1050 => t = <<"$", "1", "0", ".", "5", "0">>)
               /\ (n = -1050 => t = <<"-", "$", "1", "0", ".", "5", "0">>)

\* format_currency(-1050) has returned "-$10.50".
C13_Witness ==
    /\ fnOp = "format_currency" /\ fnIn.n = -1050
    /\ fnOut.text = <<"-", "$", "1", "0", ".", "5", "0">>

\* C17: for every integer amount n in cents, cents_to_dollars(n) is the
\* decimal n / 100 exactly, and dollars_to_cents of it is n again.
C17_CentsRoundTrip ==
    fnOp = "cents_round_trip"
        => /\ fnOut.status = "ok"
           /\ DecEq(fnOut.d, Dec(fnIn.n, -2))
           /\ fnOut.n = fnIn.n

\* -123456 cents went to -1234.56 and came back as -123456.
C17_Witness ==
    /\ fnOp = "cents_round_trip" /\ fnIn.n = -123456
    /\ fnOut.d = Dec(-123456, -2) /\ fnOut.n = -123456

(***************************************************************************)
(* Claim about the amount the endpoint stores (checked under Spec).        *)
(***************************************************************************)
\* C14: for every request amount, the amount stored by the
\* transaction-creation endpoint is the amount x 100 rounded half-up, the
\* value dollars_to_cents gives for the same amount (10.555 is stored as
\* 1056), with no truncation and no floating-point error.
C14_EndpointStoresHalfUp ==
    \A p \in Callers :
        (pc[p] = "done" /\ call[p].path = "endpoint" /\ ret[p].status = "ok")
            => /\ ret[p].row.amount = dollars_to_cents(call[p].amount).n
               /\ ret[p].row \in store

(***************************************************************************)
(* Claim about the streaming endpoint (checked under SpecChat).            *)
(***************************************************************************)
\* C15: every response stream of POST /chat/stream is a sequence of
\* "streaming" events followed by exactly one terminal event, "complete" or
\* "error", after which nothing is emitted; the stream for a message the
\* agent can answer ends with "complete".
C15_StreamEndsComplete ==
    (pc["a"] = "done" /\ call["a"].path = "stream")
        => LET events == ret["a"].events
               n == Len(events)
           IN  /\ n >= 1
               /\ \A i \in 1..(n - 1) :
                      events[i].status = "streaming" /\ events[i].content # ""
               /\ events[n].status \in {"complete", "error"}
               /\ (call["a"].request.llm_up => events[n].status = "complete")

(***************************************************************************)
(* Claim about aggregate queries over matching rows (checked under         *)
(* SpecQuery).                                                             *)
(***************************************************************************)
\* C16: for every table and filter with at least one matching transaction,
\* an aggregate query returns for each requested aggregation its value over
\* the matching amounts in cents (sum, count, average = sum / count), and for
\* sum and average also the dollar value equal to that value divided by 100,
\* also when the sum is zero and when the average is not a whole number of
\* cents.
C16_AggregateValues ==
    (/\ pc["a"] = "done" /\ call["a"].path = "query"
     /\ call["a"].params.aggregations # <<>>
     /\ Matching(store, call["a"].params.filters, clock) # {})
        => LET hit    == Matching(store, call["a"].params.filters, clock)
               n      == Cardinality(hit)
               total  == SumAmounts(hit)
               result == ret["a"].result
               asked  == {AggColumn(g) : g \in SeqRange(call["a"].params.aggregations)}
           IN  /\ asked \subseteq result.keys
               /\ result.nulls = {}
               /\ "total_amount" \in asked =>
                      /\ result.total_amount = total
                      /\ "total_amount_dollars" \in result.keys
                      /\ DecEq(result.total_amount_dollars, Dec(total, -2))
               /\ "count" \in asked => result.count = n
               /\ "average_amount" \in asked =>
                      /\ result.average_amount = [num |-> total, den |-> n]
                      /\ "average_amount_dollars" \in result.keys
                      /\ LET d == result.average_amount_dollars
                         IN  d.exp >= -2 /\ d.coef * Pow10(d.exp + 2) * n = total

(***************************************************************************)
(* Claim about unparsable amounts (checked under SpecPure).                *)
(***************************************************************************)
\* C18: dollars_to_cents and validate_amount, given a text that cannot be
\* parsed as a number, fail with ValueError, the error an out-of-bounds amount
\* produces; no other kind of error escapes and no integer is returned.
C18_UnparsableIsValueError ==
    (/\ fnOp \in {"dollars_to_cents", "validate_amount"}
     /\ fnIn.kind = "str"
     /\ ParseDecimal(fnIn.text).status # "ok")
        => fnOut.status = "ValueError"

(***************************************************************************)
(* Claim about get_current_user (checked under SpecChat).                  *)
(***************************************************************************)
\* C19: for every request to an endpoint that depends on get_current_user,
\* whenever the verification of the bearer token with the identity provider
\* fails, the request is rejected with HTTP 401 and the body of the
\* endpoint's handler does not run.
C19_FailedVerificationIs401 ==
    (/\ pc["a"] = "done" /\ call["a"].path = "gmail"
     /\ call["a"].get_user \notin {"user", "user_no_email"})
        => ret["a"].code = 401 /\ ~ret["a"].body_ran

(***************************************************************************)
(* Claim about the category priority (checked under SpecPure).             *)
(***************************************************************************)
\* The fixed priority order of the category groups.
CategoryOrder ==
    <<"technology", "food", "shopping", "transportation", "entertainment",
      "health", "utilities">>

\* The keywords of a category group.
KeywordsOf(category) ==
    category_mapping[CHOOSE i \in 1..Len(category_mapping) :
                         category_mapping[i].category = category].keywords

\* The groups a keyword of which occurs in the utterance, letter case aside.
GroupsIn(text) ==
    {i \in 1..Len(CategoryOrder) : AnyIn(Lower(text), KeywordsOf(CategoryOrder[i]))}

\* str.upper(), a character at a time.
Upper(s) ==
    [i \in 1..Len(s) |->
        IF \E k \in 1..26 : LowerLetters[k] = s[i]
        THEN UpperLetters[CHOOSE k \in 1..26 : LowerLetters[k] = s[i]]
        ELSE s[i]]

\* C20: when an utterance contains keywords of more than one category group
\* (or of one), _parse_query sets category to the group that comes first in
\* the order technology, food, shopping, transportation, entertainment,
\* health, utilities, wherever the keywords stand in the utterance; with no
\* keyword the category is unset; the utterance in upper case and in lower
\* case gives the same result.
C20_CategoryPriority ==
    fnOp = "parse_query"
        => LET groups == GroupsIn(fnIn.text)
               c == fnOut.filters.category
           IN  /\ (groups = {} => c = None)
               /\ (groups # {} =>
                      \E i \in groups : c = CategoryOrder[i] /\ \A j \in groups : i <= j)
               /\ parse_query(Upper(fnIn.text)) = fnOut
               /\ parse_query(Lower(fnIn.text)) = fnOut

\* "netflix car laptop" holds keywords of entertainment, transportation and
\* technology, in that position, and the category is technology.
C20_Witness ==
    /\ fnOp = "parse_query"
    /\ fnIn.text = <<"n", "e", "t", "f", "l", "i", "x", " ", "c", "a", "r", " ",
                     "l", "a", "p", "t", "o", "p">>
    /\ GroupsIn(fnIn.text) = {1, 4, 5}
    /\ fnOut.filters.category = "technology"

(***************************************************************************)
(* Claims about the fields of the QuerySpec (checked under SpecPure).      *)
(***************************************************************************)
\* The cues of the aggregations, in their order of precedence.
AggregationCues ==
    <<[aggregation |-> "sum",
       cues |-> <<<<"t", "o", "t", "a", "l">>, <<"s", "u", "m">>,
                  <<"h", "o", "w", " ", "m", "u", "c", "h">>>>],
      [aggregation |-> "average",
       cues |-> <<<<"a", "v", "e", "r", "a", "g", "e">>, <<"a", "v", "g">>>>],
      [aggregation |-> "count",
       cues |-> <<<<"c", "o", "u", "n", "t">>,
                  <<"h", "o", "w", " ", "m", "a", "n", "y">>>>]>>

\* The aggregations a cue of which occurs in the utterance, letter case aside.
AggregationsIn(text) ==
    {i \in 1..Len(AggregationCues) : AnyIn(Lower(text), AggregationCues[i].cues)}

\* C21: for every utterance the aggregations list of _parse_query has at most
\* one element; when cues of several aggregations occur, the one selected is
\* the first in the order sum, average, count.
C21_OneAggregation ==
    fnOp = "parse_query"
        => LET found == AggregationsIn(fnIn.text)
               aggs == fnOut.aggregations
           IN  /\ Len(aggs) <= 1
               /\ (found = {} => aggs = <<>>)
               /\ (found # {} =>
                      \E i \in found :
                          /\ aggs = <<AggregationCues[i].aggregation>>
                          /\ \A j \in found : i <= j)

\* "how many average total" holds cues of count, average and sum, and the
\* list is the one element sum.
C21_Witness ==
    /\ fnOp = "parse_query"
    /\ fnIn.text = <<"h", "o", "w", " ", "m", "a", "n", "y", " ",
                     "a", "v", "e", "r", "a", "g", "e", " ", "t", "o", "t", "a", "l">>
    /\ AggregationsIn(fnIn.text) = {1, 2, 3}
    /\ fnOut.aggregations = <<"sum">>

\* The words that indicate a type.
ExpenseCues ==
    <<<<"s", "p", "e", "n", "t">>, <<"s", "p", "e", "n", "d", "i", "n", "g">>,
      <<"e", "x", "p", "e", "n", "s", "e">>, <<"c", "o", "s", "t">>>>

IncomeCues ==
    <<<<"e", "a", "r", "n", "e", "d">>, <<"i", "n", "c", "o", "m", "e">>,
      <<"s", "a", "l", "a", "r", "y">>, <<"r", "e", "v", "e", "n", "u", "e">>>>

\* The QuerySpec has no field set.
NoFieldSet(q) ==
    /\ q.filters.category = None
    /\ q.filters.type = None
    /\ q.filters.date_range = None
    /\ q.aggregations = <<>>

\* C22: each field of the QuerySpec _parse_query produces is set if and only
\* if a cue of its group occurs in the lower-cased utterance: the category,
\* the type (expense cues before income cues), the aggregation, and the
\* date_range, which is this_month exactly when the utterance contains
\* "month"; a field with no cue is unset; a QuerySpec with no field set
\* selects all stored transactions.
C22_FieldsIffCues ==
    /\ (pc["a"] = "done" /\ call["a"].path = "query_tool") =>
           LET text == Lower(call["a"].query)
               q == call["a"].query_params
           IN  /\ q.filters.category # None <=> GroupsIn(text) # {}
               /\ q.filters.type = "expense" <=> AnyIn(text, ExpenseCues)
               /\ q.filters.type = "income" <=>
                      (~AnyIn(text, ExpenseCues) /\ AnyIn(text, IncomeCues))
               /\ q.filters.type \in {"expense", "income", None}
               /\ q.aggregations # <<>> <=> AggregationsIn(text) # {}
               /\ q.filters.date_range = "this_month" <=>
                      Contains(text, <<"m", "o", "n", "t", "h">>)
               /\ q.filters.date_range \in {"this_month", None}
               /\ (NoFieldSet(q) /\ ret["a"].status = "ok") =>
                      IF store = {}
                      THEN ret["a"].reply = <<[part |-> "No transactions found"]>>
                      ELSE ret["a"].reply[1] = [part |-> "Found", n |-> Cardinality(store)]
    /\ (/\ pc["a"] = "done" /\ call["a"].path = "query"
        /\ NoFieldSet(call["a"].params) /\ call["a"].params.limit = 0) =>
           {ret["a"].result.rows[i].row : i \in 1..Len(ret["a"].result.rows)} = store

\* The tool was called with "on", which holds no cue, on a table of seven
\* rows, and the reply counts seven transactions.
C22_Witness ==
    /\ pc["a"] = "done" /\ call["a"].path = "query_tool"
    /\ call["a"].query = <<"o", "n">>
    /\ NoFieldSet(call["a"].query_params)
    /\ Cardinality(store) = 7
    /\ ret["a"].status = "ok"
    /\ ret["a"].reply[1] = [part |-> "Found", n |-> 7]

(***************************************************************************)
(* Claims about the rows a query selects (checked under SpecReport).       *)
(***************************************************************************)
\* The month a time falls in, and the first day of a month.
MonthOf(t) == t \div MonthLen
FirstDay(month) == month * MonthLen

\* The row passes the category and type filters of the QuerySpec.
PassesOtherFilters(row, filters) ==
    /\ (filters.category \notin {None, ""} => row.category = filters.category)
    /\ (filters.type \notin {None, ""} => row.type = filters.type)

\* The stored rows of the month the query runs in that pass the other
\* filters.
ThisMonthRows(filters) ==
    {row \in store :
        /\ PassesOtherFilters(row, filters)
        /\ FirstDay(MonthOf(clock)) <= row.date
        /\ row.date < FirstDay(MonthOf(clock) + 1)}

\* C23: a query with date_range "this_month" selects exactly the stored
\* transactions, among those passing the other filters, whose date d
\* satisfies first day of the current month <= d < first day of the next
\* month, the current month being that of the time the query runs.
C23_ThisMonth ==
    /\ (/\ pc["a"] = "done" /\ call["a"].path = "query"
        /\ call["a"].params.filters.date_range = "this_month"
        /\ call["a"].params.aggregations = <<>>
        /\ call["a"].params.limit = 0) =>
           {ret["a"].result.rows[i].row : i \in 1..Len(ret["a"].result.rows)}
               = ThisMonthRows(call["a"].params.filters)
    /\ (/\ pc["a"] = "done" /\ call["a"].path = "query_tool"
        /\ call["a"].query_params.filters.date_range = "this_month"
        /\ call["a"].query_params.aggregations = <<>>
        /\ ret["a"].status = "ok") =>
           LET n == Cardinality(ThisMonthRows(call["a"].query_params.filters))
           IN  IF n = 0
               THEN ret["a"].reply = <<[part |-> "No transactions found"]>>
               ELSE ret["a"].reply[1] = [part |-> "Found", n |-> n]

\* A query for this month run in the second month over a table with rows
\* dated before, in and after that month, the row dated the first day of the
\* next month among them: the rows of the second month are returned.
C23_Witness ==
    /\ pc["a"] = "done" /\ call["a"].path = "query"
    /\ call["a"].params.filters.date_range = "this_month"
    /\ call["a"].params.filters.category = None
    /\ call["a"].params.limit = 0
    /\ MonthOf(clock) = 1
    /\ \E r \in store : r.date < FirstDay(1)
    /\ \E r \in store : r.date = FirstDay(2)
    /\ Len(ret["a"].result.rows) = MonthLen
    /\ \A i \in 1..MonthLen : MonthOf(ret["a"].result.rows[i].row.date) = 1

\* The stored rows that match the filters of a QuerySpec.
MatchingRows(filters) ==
    IF filters.date_range = "this_month" THEN ThisMonthRows(filters)
    ELSE {row \in store : PassesOtherFilters(row, filters)}

\* C24: a non-aggregate query returns its matching transactions ordered by
\* date, most recent first, unless sort_by or sort_order is given; when a
\* positive limit L is given it returns the first min(L, number of matches)
\* transactions of that order.
C24_DateDescendingLimited ==
    (/\ pc["a"] = "done" /\ call["a"].path = "query"
     /\ call["a"].params.aggregations = <<>>
     /\ call["a"].params.sort_by = "date" /\ call["a"].params.sort_order = "desc") =>
        LET rows == ret["a"].result.rows
            matches == MatchingRows(call["a"].params.filters)
            L == call["a"].params.limit
            n == Cardinality(matches)
        IN  /\ \A i \in 1..Len(rows) : rows[i].row \in matches
            /\ \A i, j \in 1..Len(rows) : i < j =>
                   /\ rows[i].row # rows[j].row
                   /\ rows[i].row.date >= rows[j].row.date
            /\ Len(rows) = IF L > 0 /\ L < n THEN L ELSE n
            /\ \A row \in matches :
                   (\A i \in 1..Len(rows) : rows[i].row # row) =>
                       \A i \in 1..Len(rows) : rows[i].row.date >= row.date

\* A query with limit 3 over seven stored rows whose dates are equal in
\* pairs returns three rows: the one of the latest date, then the two of the
\* date before.
C24_Witness ==
    /\ pc["a"] = "done" /\ call["a"].path = "query"
    /\ call["a"].params.aggregations = <<>>
    /\ call["a"].params.filters.category = None
    /\ call["a"].params.sort_by = "date" /\ call["a"].params.sort_order = "desc"
    /\ call["a"].params.limit = 3
    /\ Cardinality(store) = 7
    /\ Len(ret["a"].result.rows) = 3
    /\ ret["a"].result.rows[1].row.date = 3
    /\ ret["a"].result.rows[2].row.date = 2
    /\ ret["a"].result.rows[3].row.date = 2

(***************************************************************************)
(* Claim about the reply of the query tool (checked under SpecReport).     *)
(***************************************************************************)
\* A non-negative amount of cents written in dollars with two decimals.
DollarsText(cents) ==
    NatToDigits(cents \div 100) \o <<".">> \o NatToFixed(cents % 100, 2)

\* C25: for a non-aggregate query result of n transactions, the reply of the
\* query tool is the "no transactions found" message when n = 0; otherwise
\* it lists exactly min(n, 5) transactions, numbered from 1 in result order,
\* followed by a note giving the remaining count n - 5 if and only if n > 5.
C25_ReplyListsFirstFive ==
    (/\ pc["a"] = "done" /\ call["a"].path = "query_tool"
     /\ call["a"].query_params.aggregations = <<>>
     /\ ret["a"].status = "ok") =>
        LET reply == ret["a"].reply
            matches == MatchingRows(call["a"].query_params.filters)
            n == Cardinality(matches)
            m == IF n < 5 THEN n ELSE 5
            lines == SubSeq(reply, 2, m + 1)
            RowOf(line) == CHOOSE row \in matches : DollarsText(row.amount) = line.amount
        IN  IF n = 0 THEN reply = <<[part |-> "No transactions found"]>>
            ELSE /\ Len(reply) = 1 + m + (IF n > 5 THEN 1 ELSE 0)
                 /\ reply[1] = [part |-> "Found", n |-> n]
                 /\ \A k \in 1..m :
                        /\ lines[k].part = "line" /\ lines[k].i = k
                        /\ \E row \in matches :
                               /\ DollarsText(row.amount) = lines[k].amount
                               /\ row.description = lines[k].description
                               /\ row.category = lines[k].category
                 /\ \A j, k \in 1..m : j < k =>
                        /\ lines[j].amount # lines[k].amount
                        /\ RowOf(lines[j]).date >= RowOf(lines[k]).date
                 /\ \A row \in matches :
                        (\A k \in 1..m : lines[k].amount # DollarsText(row.amount)) =>
                            \A k \in 1..m : RowOf(lines[k]).date >= row.date
                 /\ n > 5 => reply[Len(reply)] = [part |-> "more", n |-> n - 5]
                 /\ \A k \in 1..Len(reply) : reply[k].part = "more" => n > 5

\* Seven rows match: the reply counts seven, lists five numbered 1 to 5 and
\* ends with the note that two more remain.
C25_Witness ==
    /\ pc["a"] = "done" /\ call["a"].path = "query_tool"
    /\ call["a"].query_params.aggregations = <<>>
    /\ ret["a"].status = "ok"
    /\ Cardinality(MatchingRows(call["a"].query_params.filters)) = 7
    /\ Len(ret["a"].reply) = 7
    /\ ret["a"].reply[1] = [part |-> "Found", n |-> 7]
    /\ ret["a"].reply[6].part = "line" /\ ret["a"].reply[6].i = 5
    /\ ret["a"].reply[7] = [part |-> "more", n |-> 2]

(***************************************************************************)
(* Claim about the two insert tools (checked under SpecTools).             *)
(***************************************************************************)
\* The message names the type, the two-decimal dollar amount, the
\* description, the category and the id of the row.
NamesRow(message, row) ==
    /\ message.type = row.type
    /\ message.amount = DollarsText(row.amount)
    /\ message.description = row.description
    /\ message.category = row.category
    /\ message.id = row.id

\* C26: every call of the insert tool has exactly one of two outcomes: it
\* writes exactly one row and returns the success message naming the type,
\* the two-decimal dollar amount, the description, the category and the id
\* of that row; or it writes no row and returns an error string.  A call
\* whose amount fails validation or whose date cannot be parsed leaves the
\* store unchanged.
C26_InsertToolOutcome ==
    [][(call'["a"].path \in {"tool", "tool_new"} /\ pc["a"] # pc'["a"]) =>
          /\ pc'["a"] = "inserted" => store' = store
          /\ pc'["a"] = "done" =>
                 \/ /\ ret'["a"].status = "ok"
                    /\ \E row \in store' \ store :
                           /\ store' = store \cup {row}
                           /\ NamesRow(ret'["a"].message, row)
                 \/ /\ ret'["a"].status = "error"
                    /\ store' = store
          /\ (/\ pc["a"] = "idle"
              /\ \/ call'["a"].date.kind = "invalid"
                 \/ validate_amount(call'["a"].amount).status # "ok")
                 => store' = store /\ pc'["a"] = "done" /\ ret'["a"].status = "error"]_vars

(***************************************************************************)
(* Claim about the generated-SQL strategy (checked under SpecTools).       *)
(***************************************************************************)
\* C27: in the model-generation strategy the query text executed against
\* the store is the model's output with any decorative wrapper removed: when
\* the model returns its query inside a formatting wrapper (for example a
\* markdown code fence), the wrapper is stripped and only the bare query is
\* executed.
C27_WrapperStripped ==
    (pc["a"] = "done" /\ call["a"].path = "sql") =>
        call["a"].sql_query = <<Sql(call["a"].stmt)>>

(***************************************************************************)
(* Claim about the date of a request to POST /transaction/ (checked under  *)
(* Spec).                                                                  *)
(***************************************************************************)
\* C28: a request to the transaction-creation endpoint whose date is present
\* but is not a valid ISO-format date is answered with status 400 and the
\* detail "Invalid date format...", and no transaction is written.
C28_InvalidDateIs400 ==
    \A p \in Callers :
        (/\ pc[p] = "done" /\ call[p].path = "endpoint"
         /\ call[p].date.kind = "invalid") =>
            /\ ret[p].status = "error"
            /\ ret[p].http = 400
            /\ ret[p].kind = "HTTPException"
            /\ \A row \in store : row.id # ret[p].row.id

(***************************************************************************)
(* Claim about DatabaseEngine (checked under SpecEngine).                  *)
(***************************************************************************)
\* C29: after any sequence or interleaving of DatabaseEngine()
\* constructions, including constructions started concurrently from several
\* threads, every construction yields the same single instance, and the
\* engine and the session factory are created exactly once.
C29_SingleEngine ==
    /\ Cardinality(engine.yielded) <= 1
    /\ engine.objects <= 1
    /\ engine.engines <= 1
    /\ engine.session_locals <= 1
    /\ engine.yielded # {} => engine.engines = 1 /\ engine.session_locals = 1

(***************************************************************************)
(* Claim about parse_amount_string (checked under SpecAmountString).       *)
(***************************************************************************)
\* C30: parse_amount_string returns 1050 for each of the amount strings
\* "$10.50", "10.50" and "1050": currency symbols, commas and surrounding
\* white space are removed and the result is the amount in cents.
C30_ParseAmountString ==
    (/\ fnOp = "parse_amount_string"
     /\ fnIn.text \in {<<"$", "1", "0", ".", "5", "0">>,
                        <<"1", "0", ".", "5", "0">>,
                        <<"1", "0", "5", "0">>})
        => fnOut = Ok(1050)

====
